---- MODULE Spec2Model ----
(***************************************************************************)
(* Profile compatibility matching engine of meetatevent                    *)
(* (backend/django_app/events/match_service.py) with the profile store,    *)
(* the ProfileMatch table and the messaging views that consult it.         *)
(***************************************************************************)
EXTENDS Integers, Sequences, FiniteSets, Bags, TLC

\* ------------------------------------------------------------------------
\* Bounds of the model
\* ------------------------------------------------------------------------
NumProfiles == 3
MaxPasses == 2
MaxDeletes == 1
MaxThreads == 1
MaxMessages == 2
MaxContentLen == 4
MaxPitchLen == 3
NumAvailable == 50
MaxEmbeddedAsker == 10
NumSeeded == 1
NumMeetups == 3
NumDates == 2

\* ------------------------------------------------------------------------
\* Configuration read from the environment (match_service.py:15-20)
\* ------------------------------------------------------------------------
MATCH_CANDIDATE_LIMIT == 2
MESSAGE_MATCH_THRESHOLD == 60
MaxReasonLen == 240
DefaultLimit == 20
BackfillMatched == 4
ProfileLimit == 100
MinutesPerDay == 1440
WindowMinutes == 30
MaxOverlapping == 2

ProfileIds == 1..NumProfiles
\* One slot per request; a request and the pass it runs or spawns share the slot
Workers == 1..MaxPasses
\* None as the value of Profile.embedding
NULL == <<>>

\* ------------------------------------------------------------------------
\* Text.  A pitch is a sequence of words; the element " " is a run of
\* whitespace, every other element is a word separated from its neighbours
\* by whitespace.
\* ------------------------------------------------------------------------
WS == " "

Lower(word) ==
    CASE word = "I" -> "i"
      [] word = "Alpha" -> "alpha"
      [] word = "BETA" -> "beta"
      [] OTHER -> word

\* str.split(): the words of the text, whitespace dropped
Split(text) == SelectSeq(text, LAMBDA x : x # WS)

\* str.strip() of a pitch is non-empty
StripNonEmpty(text) == Split(text) # <<>>

TokensCaseSensitive(text) == { Split(text)[i] : i \in 1..Len(Split(text)) }

\* set(text.lower().split())
Tokens(text) == { Lower(Split(text)[i]) : i \in 1..Len(Split(text)) }

Min(a, b) == IF a <= b THEN a ELSE b
Max(a, b) == IF a >= b THEN a ELSE b

\* A reason string is kept by its structure: lead/trail are the lengths of the
\* leading and trailing whitespace, core the length of what lies between
\* (starting and ending with a non-blank character when core > 0).
Str(lead, core, trail) == [lead |-> lead, core |-> core, trail |-> trail]
StrLen(s) == s.lead + s.core + s.trail
StrStrip(s) == Str(0, s.core, 0)
StrTake(s, n) ==
    LET l == Min(s.lead, n)
        c == Min(s.core, n - l)
        t == Min(s.trail, n - l - c)
    IN  Str(l, c, t)

NoReasonProvided == Str(0, 18, 0)          \* 'No reason provided'
InsufficientPitchData == Str(0, 23, 0)     \* 'Insufficient pitch data'
TokenOverlapFallback == Str(0, 28, 0)      \* 'Token-overlap fallback score'

MatchResult(score, reason, via) == [score |-> score, reason |-> reason, via |-> via]

\* ------------------------------------------------------------------------
\* _fallback_score
\* ------------------------------------------------------------------------
FallbackScoreRounded(pitch_a, pitch_b) ==
    LET tokens_a == Tokens(pitch_a)
        tokens_b == Tokens(pitch_b)
        overlap  == Cardinality(tokens_a \cap tokens_b)
        n        == Max(1, Cardinality(tokens_a))
    IN  IF tokens_a = {}
        THEN MatchResult(0, InsufficientPitchData, "fallback")
        ELSE MatchResult(Min(95, (2 * (35 * n + 65 * overlap) + n) \div (2 * n)),
                         TokenOverlapFallback, "fallback")

FallbackScoreSymmetric(pitch_a, pitch_b) ==
    LET tokens_a == Tokens(pitch_a)
        tokens_b == Tokens(pitch_b)
        overlap  == Cardinality(tokens_a \cap tokens_b)
        n        == Max(1, Cardinality(tokens_a \cup tokens_b))
    IN  IF tokens_a = {}
        THEN MatchResult(0, InsufficientPitchData, "fallback")
        ELSE MatchResult(Min(95, (35 * n + 65 * overlap) \div n),
                         TokenOverlapFallback, "fallback")

FallbackScore(pitch_a, pitch_b) ==
    LET tokens_a == Tokens(pitch_a)
        tokens_b == Tokens(pitch_b)
        overlap  == Cardinality(tokens_a \cap tokens_b)
        n        == Max(1, Cardinality(tokens_a))
    IN  IF tokens_a = {}
        THEN MatchResult(0, InsufficientPitchData, "fallback")
        ELSE MatchResult(Min(95, (35 * n + 65 * overlap) \div n),
                         TokenOverlapFallback, "fallback")

\* ------------------------------------------------------------------------
\* Oracle response text.  The content of a completion is a sequence of
\* tokens: braces, noise characters, whitespace, a non-object JSON value
\* ("value": a number, a list ...) and the two fields of the expected object.
\* ------------------------------------------------------------------------
LB == [t |-> "lbrace"]
RB == [t |-> "rbrace"]
NOISE == [t |-> "noise"]
BLANK == [t |-> "ws"]
JVALUE == [t |-> "value"]
ScoreField(v) == [t |-> "match_score", v |-> v]
ReasonField(v) == [t |-> "reasoning", v |-> v]

JInt(n) == [k |-> "int", n |-> n]               \* 72
JFloat(tenths) == [k |-> "float", n |-> tenths] \* 72.6 is JFloat(726)
JNumStr(n) == [k |-> "numstr", n |-> n]         \* "72"
JBad == [k |-> "bad", n |-> 0]                  \* "high", null, [..]
JStr(s) == [k |-> "str", s |-> s]
JNull == [k |-> "null", s |-> Str(0, 0, 0)]

RAISED == [raised |-> TRUE]
Returned(r) == [raised |-> FALSE, result |-> r]

\* text.strip()
RECURSIVE LStrip(_)
LStrip(text) ==
    IF text # <<>> /\ Head(text).t = "ws" THEN LStrip(Tail(text)) ELSE text
RECURSIVE RStrip(_)
RStrip(text) ==
    IF text # <<>> /\ text[Len(text)].t = "ws"
    THEN RStrip(SubSeq(text, 1, Len(text) - 1)) ELSE text
Strip(text) == RStrip(LStrip(text))

\* str.find('{') and str.rfind('}'), 1-based, 0 when absent (Python: -1)
Find(text, tok) ==
    LET hits == { i \in 1..Len(text) : text[i].t = tok }
    IN  IF hits = {} THEN 0 ELSE CHOOSE i \in hits : \A j \in hits : i <= j
RFind(text, tok) ==
    LET hits == { i \in 1..Len(text) : text[i].t = tok }
    IN  IF hits = {} THEN 0 ELSE CHOOSE i \in hits : \A j \in hits : i >= j

\* json.loads: whitespace between tokens is insignificant; the text must be
\* exactly one JSON value.
JsonLoads(text) ==
    LET body == SelectSeq(text, LAMBDA x : x.t # "ws")
        n == Len(body)
        inner == SubSeq(body, 2, n - 1)
    IN  IF n = 1 /\ body[1].t = "value" THEN [kind |-> "value", fields |-> <<>>]
        ELSE IF /\ n >= 2
                /\ body[1].t = "lbrace"
                /\ body[n].t = "rbrace"
                /\ \A i \in 1..Len(inner) : inner[i].t \in {"match_score", "reasoning"}
             THEN [kind |-> "object", fields |-> inner]
             ELSE [kind |-> "error", fields |-> <<>>]

\* dict.get(key, default) on the parsed object: the last occurrence of a key wins
DictGet(fields, key, default) ==
    LET hits == { i \in 1..Len(fields) : fields[i].t = key }
    IN  IF hits = {} THEN default
        ELSE fields[CHOOSE i \in hits : \A j \in hits : i >= j].v

\* int(x): floats truncate toward zero, numeric strings convert, anything else raises
IntRaises(v) == v.k = "bad"
IntOf(v) ==
    CASE v.k = "int" -> v.n
      [] v.k = "numstr" -> v.n
      [] v.k = "float" -> IF v.n >= 0 THEN v.n \div 10 ELSE -((-v.n) \div 10)
      [] OTHER -> 0

\* str(x) of the reasoning value: None prints as 'None'
StrOf(v) == IF v.k = "null" THEN Str(0, 4, 0) ELSE v.s

ClampMissing(score) == score

Clamp(score) == Max(0, Min(100, score))

\* ------------------------------------------------------------------------
\* _parse_match_json
\* ------------------------------------------------------------------------
ParseMatchJson(text) ==
    LET parsed == JsonLoads(text)
        rawscore == DictGet(parsed.fields, "match_score", JInt(0))
        rawreason == DictGet(parsed.fields, "reasoning", JStr(NoReasonProvided))
        reason == StrTake(StrStrip(StrOf(rawreason)), MaxReasonLen)
        score == Clamp(IntOf(rawscore))
    IN  IF parsed.kind = "error" THEN RAISED            \* json.JSONDecodeError
        ELSE IF parsed.kind = "value" THEN RAISED       \* no .get on a non-dict
        ELSE IF IntRaises(rawscore) THEN RAISED         \* ValueError / TypeError
        ELSE Returned(MatchResult(score,
                                  IF StrLen(reason) = 0 THEN NoReasonProvided ELSE reason,
                                  "oracle"))

\* ------------------------------------------------------------------------
\* _openai_score.  have_key: OPENAI_API_KEY is set; have_client: the openai
\* package was importable; response: what the completion call does, either
\* raising (transport, auth) or returning a message content.
\* ------------------------------------------------------------------------
CallRaises == [kind |-> "raises", content |-> <<>>]
CallReturns(text) == [kind |-> "returns", content |-> text]

OpenAIScoreNoExtract(have_key, have_client, pitch_a, pitch_b, response) ==
    LET content == Strip(response.content)
        first == ParseMatchJson(content)
    IN  IF ~have_key \/ ~have_client THEN FallbackScore(pitch_a, pitch_b)
        ELSE IF response.kind = "raises" THEN FallbackScore(pitch_a, pitch_b)
        ELSE IF content = <<>> THEN FallbackScore(pitch_a, pitch_b)
        ELSE IF ~first.raised THEN first.result
        ELSE FallbackScore(pitch_a, pitch_b)

OpenAIScoreUncaught(have_key, have_client, pitch_a, pitch_b, response) ==
    LET content == Strip(response.content)
        first == ParseMatchJson(content)
        start == Find(content, "lbrace")
        end == RFind(content, "rbrace")
        second == ParseMatchJson(SubSeq(content, start, end))
    IN  IF ~have_key \/ ~have_client THEN FallbackScore(pitch_a, pitch_b)
        ELSE IF response.kind = "raises" THEN FallbackScore(pitch_a, pitch_b)
        ELSE IF content = <<>> THEN FallbackScore(pitch_a, pitch_b)
        ELSE IF ~first.raised THEN first.result
        ELSE IF start # 0 /\ end # 0 /\ end > start
             THEN IF second.raised THEN MatchResult(0, Str(0, 0, 0), "raised")
                  ELSE second.result
             ELSE FallbackScore(pitch_a, pitch_b)

OpenAIScore(have_key, have_client, pitch_a, pitch_b, response) ==
    LET content == Strip(response.content)
        first == ParseMatchJson(content)
        start == Find(content, "lbrace")
        end == RFind(content, "rbrace")
        second == ParseMatchJson(SubSeq(content, start, end))
    IN  IF ~have_key \/ ~have_client THEN FallbackScore(pitch_a, pitch_b)
        ELSE IF response.kind = "raises" THEN FallbackScore(pitch_a, pitch_b)
        ELSE IF content = <<>> THEN FallbackScore(pitch_a, pitch_b)
        ELSE IF ~first.raised THEN first.result
        ELSE IF start # 0 /\ end # 0 /\ end > start
             THEN IF second.raised THEN FallbackScore(pitch_a, pitch_b)
                  ELSE second.result
             ELSE FallbackScore(pitch_a, pitch_b)

\* ------------------------------------------------------------------------
\* Embeddings.  A vector of the embedding oracle is a pair of integers;
\* NULL is the absent embedding.
\* ------------------------------------------------------------------------
EmbedRaises == [kind |-> "raises", vector |-> NULL]
EmbedReturns(v) == [kind |-> "returns", vector |-> v]

\* The embedding model maps a text to one vector (here by its first word);
\* the call may also fail
VectorOf(text) ==
    LET words == Split(text)
    IN  IF words = <<>> THEN <<1, 1>>
        ELSE IF Lower(words[1]) = "alpha" THEN <<1, 0>>
        ELSE IF Lower(words[1]) = "beta" THEN <<0, 1>>
        ELSE <<1, 2>>
EmbedResponses(text) == { EmbedRaises, EmbedReturns(VectorOf(text)) }

Dot(u, v) == u[1] * v[1] + u[2] * v[2]

\* CosineDistance(u, a) < CosineDistance(u, b), i.e. cos(u, a) > cos(u, b),
\* compared without square roots
CloserThan(u, a, b) ==
    LET da == Dot(u, a)
        db == Dot(u, b)
        na == Dot(a, a)
        nb == Dot(b, b)
    IN  IF da >= 0 /\ db < 0 THEN TRUE
        ELSE IF da < 0 /\ db >= 0 THEN FALSE
        ELSE IF da >= 0 THEN da * da * nb > db * db * na
        ELSE da * da * nb < db * db * na

EmbeddingCallAlways(have_key, have_client, text) == have_key /\ have_client

\* _get_embedding: does the call reach the embeddings endpoint, and what it returns
EmbeddingCallMade(have_key, have_client, text) ==
    have_key /\ have_client /\ StripNonEmpty(text)

GetEmbedding(have_key, have_client, text, response) ==
    IF ~have_key \/ ~have_client THEN NULL
    ELSE IF ~StripNonEmpty(text) THEN NULL
    ELSE IF response.kind = "raises" THEN NULL
    ELSE response.vector

\* ------------------------------------------------------------------------
\* State
\* ------------------------------------------------------------------------
VARIABLES
    have_key,     \* OPENAI_API_KEY is non-empty
    have_client,  \* `from openai import OpenAI` succeeded
    profiles,     \* Profile table: id -> row
    next_id,      \* next primary key of Profile
    matches,      \* ProfileMatch table: a bag of rows
    pass,         \* per request: the caller and the refresh pass it runs or spawns
    started,      \* number of passes begun
    deletes,      \* number of profiles deleted
    threads,      \* MessageThread table: thread id -> participants
    messages,     \* Message table, in creation order
    reply,        \* the response to the latest read or messaging request
    call,         \* one call of _openai_score: its arguments and what it returned
    meetups,      \* Meetup table: meetup id -> date and time
    interests     \* MeetupInterest table: the (profile, meetup) pairs stored

msgvars == <<threads, messages, reply>>
meetvars == <<meetups, interests>>
vars == <<have_key, have_client, profiles, next_id, matches, pass, started, deletes,
          threads, messages, reply, call, meetups, interests>>

NoProfile == [live |-> FALSE, pitch |-> <<>>, embedding |-> NULL, created_at |-> 0]
Live(p) == profiles[p].live
LiveIds == { p \in ProfileIds : Live(p) }

\* The pitch stored with each new profile
PitchA == <<"Alpha", "beta">>
PitchB == <<"beta", WS, "gamma", "delta">>
PitchBlank == <<WS>>
Pitches == <<PitchA, PitchB, PitchBlank, PitchA>>
PitchFor(id) == Pitches[((id - 1) % Len(Pitches)) + 1]

\* What the completion endpoint may do with the prompt rendered for two
\* pitches: fail, or return the completion the model gives for that prompt
LongReason == JStr(Str(1, 300, 2))
BlankReason == JStr(Str(3, 0, 0))
ShortReason == JStr(Str(0, 12, 0))
CompletionFor(pitch_a, pitch_b) ==
    LET a == Tokens(pitch_a)
        b == Tokens(pitch_b)
    IN  IF a = {} /\ "alpha" \in b THEN <<NOISE, NOISE>>
        ELSE IF a = {} THEN <<LB, ScoreField(JBad), RB>>
        ELSE IF b = {} /\ "alpha" \in a
             THEN <<NOISE, LB, ScoreField(JInt(-10)), ReasonField(BlankReason), RB, NOISE>>
        ELSE IF b = {}
             THEN <<LB, ScoreField(JInt(60)), ReasonField(ShortReason), RB, BLANK>>
        ELSE IF "alpha" \in a
             THEN <<LB, ScoreField(JInt(150)), ReasonField(LongReason), RB>>
             ELSE <<LB, ReasonField(ShortReason), ScoreField(JFloat(599)), RB>>
OracleResponses(pitch_a, pitch_b) ==
    { CallRaises, CallReturns(CompletionFor(pitch_a, pitch_b)) }

\* ------------------------------------------------------------------------
\* ProfileMatch table
\* ------------------------------------------------------------------------
Row(source, target, result) ==
    [source_profile |-> source, target_profile |-> target,
     match_score |-> result.score, reasoning |-> result.reason]

RowsOf(source, target) ==
    { r \in BagToSet(matches) : r.source_profile = source /\ r.target_profile = target }

RowCount(source, target) ==
    LET rows == RowsOf(source, target)
        RECURSIVE Sum(_)
        Sum(S) == IF S = {} THEN 0
                  ELSE LET r == CHOOSE x \in S : TRUE
                       IN  CopiesIn(r, matches) + Sum(S \ {r})
    IN  Sum(rows)

\* on_delete=CASCADE of both foreign keys
CascadeDelete(table, p) ==
    LET keep == { r \in BagToSet(table) : r.source_profile # p /\ r.target_profile # p }
    IN  [r \in keep |-> table[r]]

CreateAlways(table, source, target, result) ==
    table (+) SetToBag({Row(source, target, result)})

GetOrCreate(table, source, target, result) ==
    IF \E r \in BagToSet(table) : r.source_profile = source /\ r.target_profile = target
    THEN table
    ELSE table (+) SetToBag({Row(source, target, result)})

\* ProfileMatch.objects.update_or_create(source_profile, target_profile, defaults):
\* the row of the pair is fetched and updated, and created when there is none
UpdateOrCreate(table, source, target, result) ==
    LET same == { r \in BagToSet(table) :
                    r.source_profile = source /\ r.target_profile = target }
        rest == { r \in BagToSet(table) : r \notin same }
        new == Row(source, target, result)
    IN  IF same = {}
        THEN table (+) SetToBag({new})
        ELSE [r \in rest |-> table[r]] (+) SetToBag({new})

\* ------------------------------------------------------------------------
\* _candidate_profiles.  `embedding` is the embedding of the in-memory profile
\* object.  The result is one of the orders the database may return: ties of
\* the sort key are in no defined order.
\* ------------------------------------------------------------------------
Snapshot(id) == [id |-> id, pitch |-> profiles[id].pitch, embedding |-> profiles[id].embedding]

Prefix(seq, n) == SubSeq(seq, 1, Min(n, Len(seq)))

OrderingsOf(S, Before(_, _)) ==
    { seq \in [1..Cardinality(S) -> S] :
        /\ \A i, j \in 1..Cardinality(S) : i # j => seq[i] # seq[j]
        /\ \A i, j \in 1..Cardinality(S) : i < j => ~Before(seq[j], seq[i]) }

\* The first `limit` elements of S in an order in which no element comes
\* after one that is before it, in every such order: order_by(...)[:limit]
RECURSIVE TakeOrdered(_, _, _)
TakeOrdered(S, before, limit) ==
    IF limit <= 0 \/ S = {} THEN {<<>>}
    ELSE LET first == { m \in S : \A x \in S : ~before[x, m] }
         IN  UNION { { <<m>> \o rest : rest \in TakeOrdered(S \ {m}, before, limit - 1) } :
                     m \in first }

\* The ranked branch filled up to the limit with the newest profiles that have
\* no embedding
CandidatesPadded(id, embedding, limit) ==
    LET byRecency == { p \in DOMAIN profiles : profiles[p].live /\ p # id }
        byDistance == { p \in byRecency : profiles[p].embedding # NULL }
        newer == [pr \in byRecency \X byRecency |->
                     profiles[pr[1]].created_at > profiles[pr[2]].created_at]
        closer == [pr \in byDistance \X byDistance |->
                     CloserThan(embedding, profiles[pr[1]].embedding, profiles[pr[2]].embedding)]
    IN  IF embedding = NULL
        THEN TakeOrdered(byRecency, newer, limit)
        ELSE UNION { { ranked \o rest :
                         rest \in TakeOrdered(byRecency \ byDistance, newer,
                                              limit - Len(ranked)) } :
                     ranked \in TakeOrdered(byDistance, closer, limit) }

CandidatesWithSelf(id, embedding, limit) ==
    LET byRecency == { p \in DOMAIN profiles : profiles[p].live }
        byDistance == { p \in byRecency : profiles[p].embedding # NULL }
        newer == [pr \in byRecency \X byRecency |->
                     profiles[pr[1]].created_at > profiles[pr[2]].created_at]
        closer == [pr \in byDistance \X byDistance |->
                     CloserThan(embedding, profiles[pr[1]].embedding, profiles[pr[2]].embedding)]
    IN  IF embedding = NULL
        THEN TakeOrdered(byRecency, newer, limit)
        ELSE TakeOrdered(byDistance, closer, limit)

CandidatesOneShort(id, embedding, limit) ==
    LET byRecency == { p \in DOMAIN profiles : profiles[p].live /\ p # id }
        byDistance == { p \in byRecency : profiles[p].embedding # NULL }
        newer == [pr \in byRecency \X byRecency |->
                     profiles[pr[1]].created_at > profiles[pr[2]].created_at]
        closer == [pr \in byDistance \X byDistance |->
                     CloserThan(embedding, profiles[pr[1]].embedding, profiles[pr[2]].embedding)]
    IN  IF embedding = NULL
        THEN TakeOrdered(byRecency, newer, limit - 1)
        ELSE TakeOrdered(byDistance, closer, limit - 1)

\* _candidate_profiles with MATCH_CANDIDATE_LIMIT = limit: the orders the
\* database may return
CandidatesWithin(id, embedding, limit) ==
    LET byRecency == { p \in DOMAIN profiles : profiles[p].live /\ p # id }
        byDistance == { p \in byRecency : profiles[p].embedding # NULL }
        newer == [pr \in byRecency \X byRecency |->
                     profiles[pr[1]].created_at > profiles[pr[2]].created_at]
        closer == [pr \in byDistance \X byDistance |->
                     CloserThan(embedding, profiles[pr[1]].embedding, profiles[pr[2]].embedding)]
    IN  IF embedding = NULL
        THEN TakeOrdered(byRecency, newer, limit)
        ELSE TakeOrdered(byDistance, closer, limit)

CandidateProfiles(id, embedding) == CandidatesWithin(id, embedding, MATCH_CANDIDATE_LIMIT)

\* ------------------------------------------------------------------------
\* Requests and refresh passes
\* ------------------------------------------------------------------------
NoSnapshot == [id |-> 0, pitch |-> <<>>, embedding |-> NULL]
NoResult == MatchResult(0, Str(0, 0, 0), "none")

IdlePass ==
    [pc |-> "idle", caller |-> "idle", mode |-> "none", pid |-> 0,
     me |-> NoSnapshot, others |-> <<>>, idx |-> 0,
     result_ab |-> NoResult, result_ba |-> NoResult,
     log |-> <<>>, nembed |-> 0, nscore |-> 0, nwrites |-> 0,
     failed_at |-> "", deleted |-> FALSE, overwritten |-> FALSE, rerun |-> FALSE,
     replaced |-> FALSE]

Other(w) == pass[w].others[pass[w].idx]

\* Requests take the slots in order
FreeSlot(w) == pass[w].caller = "idle" /\ \A v \in Workers : v < w => pass[v].caller # "idle"

\* An exception leaves the pass: swallowed by _worker on the background thread,
\* raised to the caller when the pass runs in the caller's thread
FailRaisesAlways(w) ==
    [pass[w] EXCEPT !.pc = "raised", !.caller = "raised", !.failed_at = pass[w].pc]

Fail(w) ==
    IF pass[w].mode = "async"
    THEN [pass[w] EXCEPT !.pc = "swallowed", !.failed_at = pass[w].pc]
    ELSE [pass[w] EXCEPT !.pc = "raised", !.caller = "raised", !.failed_at = pass[w].pc]

\* The loop of create_or_update_profile_matches is over: the function returns,
\* to its caller when it runs in the caller's thread
Complete(p) ==
    [p EXCEPT !.pc = "done",
              !.caller = IF p.mode = "async" THEN @ ELSE "returned"]

\* Another pass wrote a row of a pair this pass handles
Disturb(p, w, source, target) ==
    IF /\ p.pc # "idle"
       /\ \E i \in 1..Len(p.others) : {source, target} = {p.pid, p.others[i].id}
    THEN [p EXCEPT !.overwritten = TRUE]
    ELSE p

\* ProfileViewSet.perform_create up to serializer.save()
PerformCreate(w) ==
    /\ FreeSlot(w)
    /\ started < MaxPasses
    /\ next_id <= NumProfiles
    /\ Cardinality(LiveIds) < 100
    /\ profiles' = [profiles EXCEPT ![next_id] =
                      [live |-> TRUE, pitch |-> PitchFor(next_id),
                       embedding |-> NULL, created_at |-> next_id]]
    /\ next_id' = next_id + 1
    /\ started' = started + 1
    /\ pass' = [pass EXCEPT ![w] =
                  [IdlePass EXCEPT !.caller = "created", !.pid = next_id,
                                   !.me = [id |-> next_id, pitch |-> PitchFor(next_id),
                                           embedding |-> NULL]]]
    /\ UNCHANGED <<meetvars, have_key, have_client, matches, deletes, msgvars, call>>

ScheduleReturnsEarly(w, async) ==
    /\ pass[w].caller = "created"
    /\ pass' = [pass EXCEPT ![w] =
                  IF async
                  THEN [@ EXCEPT !.mode = "async", !.caller = "returned", !.pc = "load"]
                  ELSE [@ EXCEPT !.mode = "sync", !.caller = "returned", !.pc = "load"]]
    /\ UNCHANGED <<meetvars, have_key, have_client, profiles, next_id, matches, started, deletes, msgvars, call>>

\* schedule_profile_match: MATCH_ASYNC is read from the environment at the call.
\* Asynchronous: the thread is started and the call returns.  Otherwise the pass
\* runs in the caller's thread and the call returns when the pass has (Complete).
ScheduleProfileMatch(w, async) ==
    /\ pass[w].caller = "created"
    /\ pass' = [pass EXCEPT ![w] =
                  IF async
                  THEN [@ EXCEPT !.mode = "async", !.caller = "returned", !.pc = "load"]
                  ELSE [@ EXCEPT !.mode = "sync", !.caller = "inline", !.pc = "ensure_self"]]
    /\ UNCHANGED <<meetvars, have_key, have_client, profiles, next_id, matches, started, deletes, msgvars, call>>

\* create_or_update_profile_matches called directly on a stored profile
\* (seed_profiles, backfill_demo_pitches)
RefreshDirect(w, p) ==
    /\ FreeSlot(w)
    /\ started < MaxPasses
    /\ Live(p)
    /\ started' = started + 1
    /\ pass' = [pass EXCEPT ![w] =
                  [IdlePass EXCEPT !.mode = "direct", !.caller = "inline",
                                   !.pc = "ensure_self", !.pid = p, !.me = Snapshot(p)]]
    /\ UNCHANGED <<meetvars, have_key, have_client, profiles, next_id, matches, deletes, msgvars, call>>

\* The same caller calls create_or_update_profile_matches again on the same
\* profile object right after the first call returned
RefreshAgain(w) ==
    /\ pass[w].caller = "returned"
    /\ pass[w].pc = "done"
    /\ pass[w].mode \in {"sync", "direct"}
    /\ started < MaxPasses
    /\ started' = started + 1
    /\ pass' = [pass EXCEPT ![w] =
                  [IdlePass EXCEPT !.mode = "direct", !.caller = "inline",
                                   !.pc = "ensure_self", !.pid = pass[w].pid,
                                   !.me = pass[w].me, !.rerun = TRUE]]
    /\ UNCHANGED <<meetvars, have_key, have_client, profiles, next_id, matches, deletes, msgvars, call>>

\* _worker: Profile.objects.get(id=profile_id)
Load(w) ==
    /\ pass[w].pc = "load"
    /\ pass' = [pass EXCEPT ![w] =
                  IF Live(pass[w].pid)
                  THEN [@ EXCEPT !.pc = "ensure_self", !.me = Snapshot(pass[w].pid)]
                  ELSE Fail(w)]
    /\ UNCHANGED <<meetvars, have_key, have_client, profiles, next_id, matches, started, deletes, msgvars, call>>

\* ensure_profile_embedding(new_profile)
EnsureSelf(w, response) ==
    /\ pass[w].pc = "ensure_self"
    /\ LET me == pass[w].me
           embedding == GetEmbedding(have_key, have_client, me.pitch, response)
       IN  IF me.embedding # NULL
           THEN /\ pass' = [pass EXCEPT ![w].pc = "select"]
                /\ UNCHANGED profiles
           ELSE IF embedding = NULL
           THEN /\ pass' = [pass EXCEPT ![w].pc = "select", ![w].nembed = @ + 1]
                /\ UNCHANGED profiles
           ELSE IF ~Live(me.id)     \* save(update_fields) finds no row
           THEN /\ pass' = [pass EXCEPT ![w] = [Fail(w) EXCEPT !.nembed = @ + 1]]
                /\ UNCHANGED profiles
           ELSE /\ pass' = [pass EXCEPT ![w].pc = "select", ![w].nembed = @ + 1,
                                        ![w].me.embedding = embedding]
                /\ profiles' = [profiles EXCEPT ![me.id].embedding = embedding]
    /\ UNCHANGED <<meetvars, have_key, have_client, next_id, matches, started, deletes, msgvars, call>>

\* A pass that first removes the rows its profile is the source of
SelectClearing(w, others) ==
    /\ pass[w].pc = "select"
    /\ LET loop == [pass[w] EXCEPT !.others = [i \in 1..Len(others) |-> Snapshot(others[i])],
                                     !.idx = 1, !.pc = "ensure_other"]
       IN  pass' = [pass EXCEPT ![w] = IF others = <<>> THEN Complete(loop) ELSE loop]
    /\ matches' = [r \in { q \in BagToSet(matches) : q.source_profile # pass[w].pid }
                     |-> CopiesIn(r, matches)]
    /\ UNCHANGED <<meetvars, have_key, have_client, profiles, next_id, started, deletes, msgvars, call>>

\* others = _candidate_profiles(new_profile), evaluated when the loop starts
Select(w, others) ==
    /\ pass[w].pc = "select"
    /\ LET loop == [pass[w] EXCEPT !.others = [i \in 1..Len(others) |-> Snapshot(others[i])],
                                     !.idx = 1, !.pc = "ensure_other"]
       IN  pass' = [pass EXCEPT ![w] = IF others = <<>> THEN Complete(loop) ELSE loop]
    /\ UNCHANGED <<meetvars, have_key, have_client, profiles, next_id, matches, started, deletes, msgvars, call>>

\* ensure_profile_embedding(other)
EnsureOther(w, response) ==
    /\ pass[w].pc = "ensure_other"
    /\ LET other == Other(w)
           embedding == GetEmbedding(have_key, have_client, other.pitch, response)
       IN  IF other.embedding # NULL
           THEN /\ pass' = [pass EXCEPT ![w].pc = "score"]
                /\ UNCHANGED profiles
           ELSE IF embedding = NULL
           THEN /\ pass' = [pass EXCEPT ![w].pc = "score", ![w].nembed = @ + 1]
                /\ UNCHANGED profiles
           ELSE IF ~Live(other.id)
           THEN /\ pass' = [pass EXCEPT ![w] = [Fail(w) EXCEPT !.nembed = @ + 1]]
                /\ UNCHANGED profiles
           ELSE /\ pass' = [pass EXCEPT ![w].pc = "score", ![w].nembed = @ + 1,
                                        ![w].others[pass[w].idx].embedding = embedding]
                /\ profiles' = [profiles EXCEPT ![other.id].embedding = embedding]
    /\ UNCHANGED <<meetvars, have_key, have_client, next_id, matches, started, deletes, msgvars, call>>

\* A pass that asks for one direction only and stores its result both ways
ScoreOneDirection(w, response_ab, response_ba) ==
    /\ pass[w].pc = "score"
    /\ pass' = [pass EXCEPT
                  ![w].result_ab = OpenAIScore(have_key, have_client, pass[w].me.pitch,
                                               Other(w).pitch, response_ab),
                  ![w].result_ba = OpenAIScore(have_key, have_client, pass[w].me.pitch,
                                               Other(w).pitch, response_ab),
                  ![w].nscore = @ + 1,
                  ![w].pc = "upsert_ab"]
    /\ UNCHANGED <<meetvars, have_key, have_client, profiles, next_id, matches, started, deletes, msgvars, call>>

ScoreSwapped(w, response_ab, response_ba) ==
    /\ pass[w].pc = "score"
    /\ pass' = [pass EXCEPT
                  ![w].result_ba = OpenAIScore(have_key, have_client, pass[w].me.pitch,
                                               Other(w).pitch, response_ab),
                  ![w].result_ab = OpenAIScore(have_key, have_client, Other(w).pitch,
                                               pass[w].me.pitch, response_ba),
                  ![w].nscore = @ + 2,
                  ![w].pc = "upsert_ab"]
    /\ UNCHANGED <<meetvars, have_key, have_client, profiles, next_id, matches, started, deletes, msgvars, call>>

\* A pass in which an exception of the completion call is not handled
ScoreRaising(w, response_ab, response_ba) ==
    /\ pass[w].pc = "score"
    /\ pass' = [pass EXCEPT
                  ![w] = IF /\ have_key
                            /\ have_client
                            /\ "raises" \in {response_ab.kind, response_ba.kind}
                         THEN Fail(w)
                         ELSE [@ EXCEPT
                                 !.result_ab = OpenAIScore(have_key, have_client,
                                                           pass[w].me.pitch, Other(w).pitch,
                                                           response_ab),
                                 !.result_ba = OpenAIScore(have_key, have_client,
                                                           Other(w).pitch, pass[w].me.pitch,
                                                           response_ba),
                                 !.nscore = @ + 2,
                                 !.pc = "upsert_ab"]]
    /\ UNCHANGED <<meetvars, have_key, have_client, profiles, next_id, matches, started, deletes, msgvars, call>>

\* result_ab = _openai_score(new_profile, other)
\* result_ba = _openai_score(other, new_profile)
Score(w, response_ab, response_ba) ==
    /\ pass[w].pc = "score"
    /\ pass' = [pass EXCEPT
                  ![w].result_ab = OpenAIScore(have_key, have_client, pass[w].me.pitch,
                                               Other(w).pitch, response_ab),
                  ![w].result_ba = OpenAIScore(have_key, have_client, Other(w).pitch,
                                               pass[w].me.pitch, response_ba),
                  ![w].nscore = @ + 2,
                  ![w].pc = "upsert_ab"]
    /\ UNCHANGED <<meetvars, have_key, have_client, profiles, next_id, matches, started, deletes, msgvars, call>>

\* An insert in place of the upsert: it raises IntegrityError when another
\* writer has stored the pair first
UpsertInsertOnly(w, source, target, result, after) ==
    IF ~Live(source) \/ ~Live(target) \/ RowsOf(source, target) # {}
    THEN /\ pass' = [pass EXCEPT ![w] = Fail(w)]
         /\ UNCHANGED matches
    ELSE /\ matches' = UpdateOrCreate(matches, source, target, result)
         /\ pass' = [v \in Workers |->
                       IF v = w
                       THEN [after EXCEPT !.nwrites = @ + 1]
                       ELSE Disturb(pass[v], w, source, target)]

\* One update_or_create of the pass; `after` is the pass once the call returned
Upsert(w, source, target, result, after) ==
    IF ~Live(source) \/ ~Live(target)       \* foreign key violation
    THEN /\ pass' = [pass EXCEPT ![w] = Fail(w)]
         /\ UNCHANGED matches
    ELSE /\ matches' = UpdateOrCreate(matches, source, target, result)
         /\ pass' = [v \in Workers |->
                       IF v = w
                       THEN [after EXCEPT
                               !.nwrites = @ + 1,
                               !.replaced = @ \/ (RowsOf(source, target)
                                                   \notin {{}, {Row(source, target, result)}})]
                       ELSE Disturb(pass[v], w, source, target)]

\* update_or_create(source_profile=new_profile, target_profile=other, result_ab)
UpsertAB(w) ==
    /\ pass[w].pc = "upsert_ab"
    /\ Upsert(w, pass[w].pid, Other(w).id, pass[w].result_ab,
              [pass[w] EXCEPT !.pc = "upsert_ba"])
    /\ UNCHANGED <<meetvars, have_key, have_client, profiles, next_id, started, deletes, msgvars, call>>

UpsertBAWrongResult(w) ==
    /\ pass[w].pc = "upsert_ba"
    /\ LET loop == [pass[w] EXCEPT
                       !.log = Append(@, [id |-> Other(w).id, ab |-> pass[w].result_ab,
                                          ba |-> pass[w].result_ba]),
                       !.idx = @ + 1, !.pc = "ensure_other"]
       IN  Upsert(w, Other(w).id, pass[w].pid, pass[w].result_ab,
                  IF pass[w].idx = Len(pass[w].others) THEN Complete(loop) ELSE loop)
    /\ UNCHANGED <<meetvars, have_key, have_client, profiles, next_id, started, deletes, msgvars, call>>

\* update_or_create(source_profile=other, target_profile=new_profile, result_ba),
\* then the loop moves to the next candidate or ends
UpsertBA(w) ==
    /\ pass[w].pc = "upsert_ba"
    /\ LET loop == [pass[w] EXCEPT
                       !.log = Append(@, [id |-> Other(w).id, ab |-> pass[w].result_ab,
                                          ba |-> pass[w].result_ba]),
                       !.idx = @ + 1, !.pc = "ensure_other"]
       IN  Upsert(w, Other(w).id, pass[w].pid, pass[w].result_ba,
                  IF pass[w].idx = Len(pass[w].others) THEN Complete(loop) ELSE loop)
    /\ UNCHANGED <<meetvars, have_key, have_client, profiles, next_id, started, deletes, msgvars, call>>

\* ------------------------------------------------------------------------
\* Reads of the ProfileMatch table
\* ------------------------------------------------------------------------
NoReply == [op |-> "none", status |-> 0, a |-> 0, b |-> 0, value |-> 0, allowed |-> FALSE]

GetStoredMatchScoreReversed(a, b) ==
    LET found == { r \in BagToSet(matches) :
                     r.source_profile = b /\ r.target_profile = a }
    IN  IF found # {}
        THEN (CHOOSE r \in found : TRUE).match_score
        ELSE FallbackScore(profiles[a].pitch, profiles[b].pitch).score

\* get_stored_match_score: filter(source_profile=a, target_profile=b).first()
GetStoredMatchScore(a, b) ==
    LET found == { r \in BagToSet(matches) :
                     r.source_profile = a /\ r.target_profile = b }
    IN  IF found # {}
        THEN (CHOOSE r \in found : TRUE).match_score
        ELSE FallbackScore(profiles[a].pitch, profiles[b].pitch).score

CanMessageStrict(a, b) == GetStoredMatchScore(a, b) > MESSAGE_MATCH_THRESHOLD

\* can_message_profiles
CanMessageProfiles(a, b) == GetStoredMatchScore(a, b) >= MESSAGE_MATCH_THRESHOLD

\* A caller asks get_stored_match_score(a, b)
StoredScoreQuery(a, b) ==
    /\ Live(a)
    /\ Live(b)
    /\ reply' = [NoReply EXCEPT !.op = "stored_score", !.a = a, !.b = b,
                                !.value = GetStoredMatchScore(a, b)]
    /\ UNCHANGED <<meetvars, have_key, have_client, profiles, next_id, matches, pass, started,
                   deletes, threads, messages, call>>

\* can_message_profiles as a read-through cache: a missing row is scored by the
\* oracle and stored before the answer is given
CanMessageQueryScoring(a, b) ==
    /\ Live(a)
    /\ Live(b)
    /\ \E r \in OracleResponses(profiles[a].pitch, profiles[b].pitch) :
          LET result == OpenAIScore(have_key, have_client, profiles[a].pitch,
                                    profiles[b].pitch, r)
              stored == IF RowCount(a, b) > 0 THEN matches
                        ELSE UpdateOrCreate(matches, a, b, result)
          IN  /\ matches' = stored
              /\ reply' = [NoReply EXCEPT !.op = "can_message", !.a = a, !.b = b,
                                          !.allowed = (IF RowCount(a, b) > 0
                                                       THEN GetStoredMatchScore(a, b)
                                                       ELSE result.score)
                                                      >= MESSAGE_MATCH_THRESHOLD]
    /\ UNCHANGED <<meetvars, have_key, have_client, profiles, next_id, pass, started,
                   deletes, threads, messages, call>>

\* A caller asks can_message_profiles(a, b)
CanMessageQuery(a, b) ==
    /\ Live(a)
    /\ Live(b)
    /\ reply' = [NoReply EXCEPT !.op = "can_message", !.a = a, !.b = b,
                                !.allowed = CanMessageProfiles(a, b)]
    /\ UNCHANGED <<meetvars, have_key, have_client, profiles, next_id, matches, pass, started,
                   deletes, threads, messages, call>>

\* ProfileSerializer.get_pitch_text for the profile obj: auth is the profile of
\* the authenticated user (0 when the request has none), param the
\* viewer_profile_id of the query string (0 when absent); the answer records
\* whether the pitch is returned rather than ''
PitchShown(auth, param, obj) ==
    IF auth # 0
    THEN auth = obj \/ CanMessageProfiles(auth, obj)
    ELSE IF param # 0
    THEN Live(param) /\ (param = obj \/ CanMessageProfiles(param, obj))
    ELSE FALSE

GetPitchText(auth, param, obj) ==
    /\ Live(obj)
    /\ auth # 0 => Live(auth)
    /\ reply' = [NoReply EXCEPT !.op = "pitch_text",
                                !.a = IF auth # 0 THEN auth ELSE param,
                                !.b = obj,
                                !.allowed = PitchShown(auth, param, obj)]
    /\ UNCHANGED <<meetvars, have_key, have_client, profiles, next_id, matches, pass, started,
                   deletes, threads, messages, call>>

\* ------------------------------------------------------------------------
\* MessageThreadViewSet
\* ------------------------------------------------------------------------
Response(op, status, a, b) ==
    [NoReply EXCEPT !.op = op, !.status = status, !.a = a, !.b = b]

\* The thread `start` reuses: one with both profiles and two participants
ThreadsOfPair(sender, recipient) ==
    { t \in DOMAIN threads :
        sender \in threads[t] /\ recipient \in threads[t] /\ Cardinality(threads[t]) = 2 }

StartThreadUngated(sender, recipient, has_text) ==
    /\ Len(threads) < MaxThreads
    /\ Len(messages) < MaxMessages
    /\ IF sender = 0 \/ recipient = 0 \/ ~has_text
       THEN /\ reply' = Response("start", 400, sender, recipient)
            /\ UNCHANGED <<threads, messages>>
       ELSE IF ~Live(sender) \/ ~Live(recipient)
       THEN /\ reply' = Response("start", 404, sender, recipient)
            /\ UNCHANGED <<threads, messages>>
       ELSE LET found == ThreadsOfPair(sender, recipient)
                thread == IF found # {} THEN CHOOSE t \in found : \A u \in found : t <= u
                          ELSE Len(threads) + 1
            IN  /\ threads' = IF found # {} THEN threads
                              ELSE Append(threads, {sender, recipient})
                /\ messages' = Append(messages, [thread |-> thread, sender |-> sender])
                /\ reply' = Response("start", 201, sender, recipient)
    /\ UNCHANGED <<meetvars, have_key, have_client, profiles, next_id, matches, pass, started, deletes, call>>

\* start: sender is the profile of the request (0 when it has none), recipient
\* the recipient_profile_id of the body (0 when missing), has_text whether the
\* stripped text is non-empty
StartThread(sender, recipient, has_text) ==
    /\ Len(threads) < MaxThreads
    /\ Len(messages) < MaxMessages
    /\ IF sender = 0 \/ recipient = 0 \/ ~has_text
       THEN /\ reply' = Response("start", 400, sender, recipient)
            /\ UNCHANGED <<threads, messages>>
       ELSE IF ~Live(sender) \/ ~Live(recipient)
       THEN /\ reply' = Response("start", 404, sender, recipient)
            /\ UNCHANGED <<threads, messages>>
       ELSE IF ~CanMessageProfiles(sender, recipient)
       THEN /\ reply' = Response("start", 403, sender, recipient)
            /\ UNCHANGED <<threads, messages>>
       ELSE LET found == ThreadsOfPair(sender, recipient)
                thread == IF found # {} THEN CHOOSE t \in found : \A u \in found : t <= u
                          ELSE Len(threads) + 1
            IN  /\ threads' = IF found # {} THEN threads
                              ELSE Append(threads, {sender, recipient})
                /\ messages' = Append(messages, [thread |-> thread, sender |-> sender])
                /\ reply' = Response("start", 201, sender, recipient)
    /\ UNCHANGED <<meetvars, have_key, have_client, profiles, next_id, matches, pass, started, deletes, call>>

\* send on thread t: `order` is the order in which list(thread.participants.all())
\* returns the participants
SendMessage(t, sender, has_text, order) ==
    /\ t \in DOMAIN threads
    /\ Len(messages) < MaxMessages
    /\ order \in OrderingsOf(threads[t], LAMBDA x, y : FALSE)
    /\ IF sender = 0 \/ ~has_text
       THEN /\ reply' = Response("send", 400, sender, t)
            /\ UNCHANGED messages
       ELSE IF ~Live(sender)
       THEN /\ reply' = Response("send", 404, sender, t)
            /\ UNCHANGED messages
       ELSE IF sender \notin threads[t]
       THEN /\ reply' = Response("send", 403, sender, t)
            /\ UNCHANGED messages
       ELSE IF Len(order) = 2 /\ ~CanMessageProfiles(order[1], order[2])
       THEN /\ reply' = Response("send", 403, sender, t)
            /\ UNCHANGED messages
       ELSE /\ messages' = Append(messages, [thread |-> t, sender |-> sender])
            /\ reply' = Response("send", 201, sender, t)
    /\ UNCHANGED <<meetvars, have_key, have_client, profiles, next_id, matches, pass, started,
                   deletes, threads, call>>

\* Profile deletion (ModelViewSet destroy, admin) with its cascade
DeleteProfile(p) ==
    /\ Live(p)
    /\ deletes < MaxDeletes
    /\ deletes' = deletes + 1
    /\ profiles' = [profiles EXCEPT ![p] = NoProfile]
    /\ matches' = CascadeDelete(matches, p)
    /\ pass' = [w \in Workers |->
                  IF pass[w].pc \in {"idle"} THEN pass[w]
                  ELSE [pass[w] EXCEPT !.deleted = TRUE]]
    /\ threads' = [t \in DOMAIN threads |-> threads[t] \ {p}]
    /\ messages' = SelectSeq(messages, LAMBDA m : m.sender # p)
    /\ UNCHANGED <<meetvars, have_key, have_client, next_id, started, reply, call>>

\* Profiles entered through the admin site exist before the first request
\* ------------------------------------------------------------------------
\* One call of _openai_score on its own
\* ------------------------------------------------------------------------
NoCall == [pc |-> "none", pitch_a |-> <<>>, pitch_b |-> <<>>, response |-> CallRaises,
           result |-> NoResult]

\* What a message content is made of
ContentTokens ==
    {LB, RB, NOISE, BLANK, JVALUE, ScoreField(JInt(70)), ScoreField(JInt(150)),
     ScoreField(JBad), ReasonField(ShortReason)}

Contents == UNION { [1..n -> ContentTokens] : n \in 0..MaxContentLen }

PitchPairs == {<<PitchA, PitchB>>, <<PitchB, PitchA>>, <<PitchBlank, PitchA>>}

Calls ==
    { [pc |-> "asked", pitch_a |-> pr[1], pitch_b |-> pr[2], response |-> r,
       result |-> NoResult] :
        pr \in PitchPairs, r \in {CallRaises} \cup { CallReturns(c) : c \in Contents } }

\* _openai_score(profile_a, profile_b) runs and returns
OpenAIScoreCall ==
    /\ call.pc = "asked"
    /\ call' = [call EXCEPT !.pc = "returned",
                            !.result = OpenAIScore(have_key, have_client, call.pitch_a,
                                                   call.pitch_b, call.response)]
    /\ UNCHANGED <<meetvars, have_key, have_client, profiles, next_id, matches, pass, started,
                   deletes, msgvars>>

SeededProfile(id) ==
    [live |-> TRUE, pitch |-> PitchFor(id), embedding |-> NULL, created_at |-> id]

InitScore ==
    /\ have_key \in BOOLEAN
    /\ have_client \in BOOLEAN
    /\ profiles = [p \in ProfileIds |-> IF p <= NumSeeded THEN SeededProfile(p) ELSE NoProfile]
    /\ next_id = NumSeeded + 1
    /\ matches = EmptyBag
    /\ pass = [w \in Workers |-> IdlePass]
    /\ started = 0
    /\ deletes = 0
    /\ threads = <<>>
    /\ messages = <<>>
    /\ reply = NoReply
    /\ meetups = <<>>
    /\ interests = {}
    /\ call \in Calls

NextScore == OpenAIScoreCall

SpecScore == InitScore /\ [][NextScore]_vars

Init ==
    /\ have_key \in BOOLEAN
    /\ have_client \in BOOLEAN
    /\ profiles = [p \in ProfileIds |-> IF p <= NumSeeded THEN SeededProfile(p) ELSE NoProfile]
    /\ next_id = NumSeeded + 1
    /\ matches = EmptyBag
    /\ pass = [w \in Workers |-> IdlePass]
    /\ started = 0
    /\ deletes = 0
    /\ threads = <<>>
    /\ messages = <<>>
    /\ reply = NoReply
    /\ meetups = <<>>
    /\ interests = {}
    /\ call = NoCall

Next ==
    \/ \E w \in Workers : PerformCreate(w)
    \/ \E w \in Workers, async \in BOOLEAN : ScheduleProfileMatch(w, async)
    \/ \E w \in Workers, p \in ProfileIds : RefreshDirect(w, p)
    \/ \E w \in Workers : RefreshAgain(w)
    \/ \E w \in Workers : Load(w)
    \/ \E w \in Workers : \E r \in EmbedResponses(pass[w].me.pitch) : EnsureSelf(w, r)
    \/ \E w \in Workers :
          \E others \in CandidateProfiles(pass[w].pid, pass[w].me.embedding) : Select(w, others)
    \/ \E w \in Workers :
          /\ pass[w].pc = "ensure_other"
          /\ \E r \in EmbedResponses(Other(w).pitch) : EnsureOther(w, r)
    \/ \E w \in Workers :
          /\ pass[w].pc = "score"
          /\ \E rab \in OracleResponses(pass[w].me.pitch, Other(w).pitch),
             rba \in OracleResponses(Other(w).pitch, pass[w].me.pitch) : Score(w, rab, rba)
    \/ \E w \in Workers : UpsertAB(w)
    \/ \E w \in Workers : UpsertBA(w)
    \/ \E p \in ProfileIds : DeleteProfile(p)

Spec == Init /\ [][Next]_vars

\* ------------------------------------------------------------------------
\* The messaging layer and the reads, with the requests served one at a time
\* ------------------------------------------------------------------------
\* Once create_or_update_profile_matches has returned or raised (or the
\* background thread has ended) and the request is answered, nothing of the
\* pass remains but what it wrote to the database
RequestEnds(w) ==
    /\ pass[w].pc \in {"done", "raised", "swallowed"}
    /\ pass[w].caller # "created"
    /\ pass' = [pass EXCEPT ![w] = IdlePass]
    /\ UNCHANGED <<meetvars, have_key, have_client, profiles, next_id, matches, started, deletes, msgvars, call>>

Pairs == { <<a, b>> \in ProfileIds \X ProfileIds : a # b }

NoPassRunning == \A w \in Workers : pass[w].pc \in {"idle", "done", "raised", "swallowed"}

AllIdle == \A w \in Workers : pass[w] = IdlePass

NextMsg ==
    \/ AllIdle /\ \E w \in Workers : PerformCreate(w)
    \/ \E w \in Workers, async \in BOOLEAN : ScheduleProfileMatch(w, async)
    \/ NoPassRunning /\ \E w \in Workers : RefreshAgain(w)
    \/ \E w \in Workers : Load(w)
    \/ \E w \in Workers : \E r \in EmbedResponses(pass[w].me.pitch) : EnsureSelf(w, r)
    \/ \E w \in Workers :
          \E others \in CandidateProfiles(pass[w].pid, pass[w].me.embedding) : Select(w, others)
    \/ \E w \in Workers :
          /\ pass[w].pc = "ensure_other"
          /\ \E r \in EmbedResponses(Other(w).pitch) : EnsureOther(w, r)
    \/ \E w \in Workers :
          /\ pass[w].pc = "score"
          /\ \E rab \in OracleResponses(pass[w].me.pitch, Other(w).pitch),
                rba \in OracleResponses(Other(w).pitch, pass[w].me.pitch) : Score(w, rab, rba)
    \/ \E w \in Workers : UpsertAB(w)
    \/ \E w \in Workers : UpsertBA(w)
    \/ \E w \in Workers : RequestEnds(w)
    \/ AllIdle /\ \E p \in ProfileIds : DeleteProfile(p)
    \/ AllIdle /\ \E pr \in Pairs : StoredScoreQuery(pr[1], pr[2])
    \/ AllIdle /\ \E pr \in Pairs : CanMessageQuery(pr[1], pr[2])
    \/ AllIdle /\ \E sender, recipient \in {0} \cup ProfileIds, has_text \in BOOLEAN :
          StartThread(sender, recipient, has_text)
    \/ AllIdle /\ \E t \in DOMAIN threads, sender \in {0} \cup ProfileIds,
                     has_text \in BOOLEAN :
          \E order \in OrderingsOf(threads[t], LAMBDA x, y : FALSE) :
              SendMessage(t, sender, has_text, order)

SpecMsg == Init /\ [][NextMsg]_vars

\* ------------------------------------------------------------------------
\* Properties
\* ------------------------------------------------------------------------

\* What _openai_score may return for the ordered pair of pitches
ScoresOf(pitch_a, pitch_b) ==
    { OpenAIScore(have_key, have_client, pitch_a, pitch_b, r) :
        r \in OracleResponses(pitch_a, pitch_b) }

\* The pass of slot w is complete and no profile was deleted since it began
Undisturbed(w) == pass[w].pc = "done" /\ ~pass[w].deleted

\* Both rows of candidate i of a complete pass exist, once each, and hold the
\* results the pass computed unless a concurrent pass wrote the pair after it
RowsOfCandidate(w, i) ==
    LET p == pass[w].pid
        c == pass[w].others[i].id
        entry == pass[w].log[i]
    IN  /\ entry.id = c
        /\ RowCount(p, c) = 1
        /\ RowCount(c, p) = 1
        /\ entry.ab \in ScoresOf(pass[w].me.pitch, pass[w].others[i].pitch)
        /\ entry.ba \in ScoresOf(pass[w].others[i].pitch, pass[w].me.pitch)
        /\ ~pass[w].overwritten =>
              /\ RowsOf(p, c) = {Row(p, c, entry.ab)}
              /\ RowsOf(c, p) = {Row(c, p, entry.ba)}

\* C1: in every reachable state, whatever refresh passes ran and however they
\* interleaved, the ProfileMatch table holds at most one row per ordered pair
\* (source_profile, target_profile).
C1_OneRowPerPair == \A pr \in Pairs : RowCount(pr[1], pr[2]) <= 1

\* Two passes wrote the same pair and the pair still has its single row
C1_Witness ==
    \E w \in Workers :
        /\ pass[w].overwritten
        /\ pass[w].nwrites > 0
        /\ RowCount(pass[w].pid, pass[w].others[1].id) = 1

\* C2: every row of the ProfileMatch table has an integer score in 0..100 and a
\* reason of 1 to 240 characters that is the stripped text, whatever the oracle
\* answered; out-of-range scores arrive clamped and blank reasons replaced.
C2_RowsWellFormed ==
    \A r \in BagToSet(matches) :
        /\ r.match_score \in 0..100
        /\ StrLen(r.reasoning) \in 1..240
        /\ r.reasoning.lead = 0

\* A row holds the oracle's 150 clamped to 100 with its 300-character reason cut
\* to 240, another the oracle's -10 clamped to 0 with the placeholder reason
C2_Witness ==
    /\ \E r \in BagToSet(matches) : r.match_score = 100 /\ StrLen(r.reasoning) = 240
    /\ \E r \in BagToSet(matches) : r.match_score = 0 /\ r.reasoning = NoReasonProvided

\* C3: when a pass is complete and no profile was deleted meanwhile, every
\* candidate of the pass has its two rows (p,c) and (c,p), each holding a result
\* of _openai_score for that direction, from two scoring calls per candidate.
C3_BothDirections ==
    \A w \in Workers :
        Undisturbed(w) =>
            /\ Len(pass[w].log) = Len(pass[w].others)
            /\ pass[w].nscore = 2 * Len(pass[w].others)
            /\ pass[w].nwrites = 2 * Len(pass[w].others)
            /\ \A i \in 1..Len(pass[w].others) : RowsOfCandidate(w, i)

\* A complete, undisturbed pass over two candidates whose two directions got
\* different results
C3_Witness ==
    \E w \in Workers :
        /\ Undisturbed(w)
        /\ ~pass[w].overwritten
        /\ Len(pass[w].others) = 2
        /\ pass[w].log[1].ab # pass[w].log[1].ba
        /\ pass[w].log[2].ab.via = "oracle"

\* C4: after create_or_update_profile_matches is called a second time in
\* succession on the same profile, every pair of the pass has exactly one row
\* and the row holds the second pass's result.
C4_RerunOverwrites ==
    \A w \in Workers :
        (pass[w].rerun /\ Undisturbed(w)) =>
            \A i \in 1..Len(pass[w].others) :
                LET p == pass[w].pid
                    c == pass[w].others[i].id
                IN  /\ RowCount(p, c) = 1
                    /\ RowCount(c, p) = 1
                    /\ ~pass[w].overwritten =>
                          /\ \A r \in RowsOf(p, c) :
                                /\ r.match_score = pass[w].log[i].ab.score
                                /\ r.reasoning = pass[w].log[i].ab.reason
                          /\ \A r \in RowsOf(c, p) :
                                /\ r.match_score = pass[w].log[i].ba.score
                                /\ r.reasoning = pass[w].log[i].ba.reason

\* The second pass found rows of the first pass and replaced their content
C4_Witness ==
    \E w \in Workers :
        /\ pass[w].rerun
        /\ Undisturbed(w)
        /\ ~pass[w].overwritten
        /\ pass[w].replaced
        /\ Len(pass[w].others) >= 1

\* C5: with MATCH_ASYNC = '1' schedule_profile_match has returned to its caller
\* whatever the pass has or has not done yet; otherwise it has returned only
\* when the pass is complete with every upsert committed.
C5_ScheduleReturn ==
    \A w \in Workers :
        /\ pass[w].mode = "async" => pass[w].caller = "returned"
        /\ (pass[w].mode = "sync" /\ pass[w].caller = "returned") =>
              /\ pass[w].pc = "done"
              /\ pass[w].idx = Len(pass[w].others) + 1
              /\ pass[w].nwrites = 2 * Len(pass[w].others)
        /\ (pass[w].mode = "sync" /\ pass[w].caller = "inline") =>
              pass[w].pc \notin {"done", "load", "idle"}

\* One caller is back while its background pass has not begun, another is back
\* from an inline pass that wrote its rows
C5_Witness ==
    \E w, v \in Workers :
        /\ pass[w].mode = "async"
        /\ pass[w].caller = "returned"
        /\ pass[w].pc = "load"
        /\ pass[w].nembed + pass[w].nscore + pass[w].nwrites = 0
        /\ pass[v].mode = "sync"
        /\ pass[v].caller = "returned"
        /\ pass[v].nwrites >= 2

\* C6: a failure of a background pass never reaches a caller, and a background
\* pass whose profile was deleted before it loaded it ends without any call and
\* without writing a row.
C6_BackgroundFailureSwallowed ==
    \A w \in Workers :
        pass[w].mode = "async" =>
            /\ pass[w].caller = "returned"
            /\ pass[w].pc # "raised"
            /\ (pass[w].pc = "load" /\ ~Live(pass[w].pid)) => pass[w].nwrites = 0
            /\ (pass[w].pc = "swallowed" /\ pass[w].failed_at = "load") =>
                  /\ pass[w].nwrites = 0
                  /\ pass[w].nscore = 0
                  /\ pass[w].nembed = 0
                  /\ pass[w].others = <<>>
                  /\ \A pr \in Pairs : pass[w].pid \in {pr[1], pr[2]} => RowCount(pr[1], pr[2]) = 0

\* The profile was deleted before the background pass loaded it
C6_Witness ==
    \E w \in Workers :
        /\ pass[w].mode = "async"
        /\ pass[w].pc = "swallowed"
        /\ pass[w].failed_at = "load"
        /\ pass[w].caller = "returned"

\* The scores the rows of the ordered pair (a, b) hold
StoredScores(a, b) == { r.match_score : r \in RowsOf(a, b) }

\* C7: get_stored_match_score(a, b) returns the score of the row whose
\* source_profile is a and whose target_profile is b when that row exists,
\* whatever the row of (b, a) holds; without such a row it returns the score
\* _fallback_score gives for (a, b); and it leaves the table as it was.
C7_StoredScore ==
    [][\A a, b \in ProfileIds :
          StoredScoreQuery(a, b) =>
              /\ matches' = matches
              /\ IF RowCount(a, b) > 0
                 THEN reply'.value \in StoredScores(a, b)
                 ELSE reply'.value = FallbackScore(profiles[a].pitch, profiles[b].pitch).score]_vars

\* The score of (a, b) was asked while the rows of (a, b) and (b, a) held
\* different scores, and the answer is the score of (a, b)
C7_Witness ==
    /\ reply.op = "stored_score"
    /\ reply.a # reply.b
    /\ RowCount(reply.a, reply.b) = 1
    /\ RowCount(reply.b, reply.a) = 1
    /\ reply.value \in StoredScores(reply.a, reply.b)
    /\ reply.value \notin StoredScores(reply.b, reply.a)

C9_MessagingGated ==
    [][/\ \A sender, recipient \in ProfileIds, has_text \in BOOLEAN :
            ( /\ StartThread(sender, recipient, has_text)
              /\ Live(sender)
              /\ Live(recipient)
              /\ GetStoredMatchScore(sender, recipient) < MESSAGE_MATCH_THRESHOLD )
            => /\ threads' = threads
               /\ messages' = messages
               /\ has_text => reply'.status = 403
       /\ \A t \in DOMAIN threads, sender \in {0} \cup ProfileIds, has_text \in BOOLEAN :
            \A order \in OrderingsOf(threads[t], LAMBDA x, y : FALSE) :
                ( /\ SendMessage(t, sender, has_text, order)
                  /\ Len(order) = 2
                  /\ GetStoredMatchScore(order[1], order[2]) < MESSAGE_MATCH_THRESHOLD )
                => /\ threads' = threads
                   /\ messages' = messages
                   /\ (sender # 0 /\ Live(sender) /\ has_text) => reply'.status = 403]_vars

\* A participant of a thread that start created was refused a send on it
C9_Witness ==
    /\ reply.op = "send"
    /\ reply.status = 403
    /\ reply.b \in DOMAIN threads
    /\ Cardinality(threads[reply.b]) = 2
    /\ reply.a \in threads[reply.b]
    /\ \E m \in 1..Len(messages) : messages[m].thread = reply.b
    /\ \E a, b \in threads[reply.b] : a # b /\ ~CanMessageProfiles(a, b)

\* The text is not a JSON object whose match_score, taken as 0 when the object
\* has none, converts to an integer
NotAnObjectWithScore(text) ==
    LET parsed == JsonLoads(text)
    IN  \/ parsed.kind # "object"
        \/ IntRaises(DictGet(parsed.fields, "match_score", JInt(0)))

\* The text from the first opening brace to the last closing brace
BraceExtract(text) ==
    LET start == Find(text, "lbrace")
        end == RFind(text, "rbrace")
    IN  IF start # 0 /\ end > start THEN SubSeq(text, start, end) ELSE <<>>

\* The failure modes of a call: no credential or no client, the completion call
\* raises, the content is empty, the content is not parseable directly nor after
\* brace extraction
FailureMode(c) ==
    \/ ~have_key
    \/ ~have_client
    \/ c.response.kind = "raises"
    \/ Strip(c.response.content) = <<>>
    \/ /\ NotAnObjectWithScore(Strip(c.response.content))
       /\ NotAnObjectWithScore(BraceExtract(Strip(c.response.content)))

Running == {"load", "ensure_self", "select", "ensure_other", "score", "upsert_ab", "upsert_ba"}

\* The process dies inside create_or_update_profile_matches: nothing is rolled
\* back, each update_or_create and each save already made is committed
Interrupt(w) ==
    /\ pass[w].pc \in Running
    /\ pass' = [pass EXCEPT ![w].pc = "interrupted", ![w].failed_at = pass[w].pc,
                            ![w].caller = IF pass[w].mode = "async" THEN @ ELSE "interrupted"]
    /\ UNCHANGED <<meetvars, have_key, have_client, profiles, next_id, matches, started, deletes,
                   msgvars, call>>

DetEmbedding(text) == EmbedReturns(VectorOf(text))
DetCompletion(pitch_a, pitch_b) == CallReturns(CompletionFor(pitch_a, pitch_b))

\* The embedding ensure_profile_embedding leaves on a profile of this pitch
EmbeddingOf(pitch) == GetEmbedding(have_key, have_client, pitch, DetEmbedding(pitch))

\* Profiles 1..NumSeeded + 1 are stored, without rows; ensure_profile_embedding
\* may have run on any of them (backfill_demo_pitches runs it on every profile)
InitRerun ==
    /\ have_key \in BOOLEAN
    /\ have_client \in BOOLEAN
    /\ profiles \in { [p \in ProfileIds |->
                         IF p <= NumSeeded + 1
                         THEN [SeededProfile(p) EXCEPT
                                 !.embedding = IF p \in E THEN EmbeddingOf(PitchFor(p)) ELSE NULL]
                         ELSE NoProfile] : E \in SUBSET (1..(NumSeeded + 1)) }
    /\ next_id = NumSeeded + 2
    /\ matches = EmptyBag
    /\ pass = [w \in Workers |-> IdlePass]
    /\ started = 0
    /\ deletes = 0
    /\ threads = <<>>
    /\ messages = <<>>
    /\ reply = NoReply
    /\ meetups = <<>>
    /\ interests = {}
    /\ call = NoCall

NoneRunning == \A w \in Workers : pass[w].pc \notin Running /\ pass[w].caller # "created"

NextRerun ==
    \/ started = 0 /\ \E w \in Workers : PerformCreate(w)
    \/ \E w \in Workers, async \in BOOLEAN : ScheduleProfileMatch(w, async)
    \/ started = 0 /\ \E w \in Workers, p \in ProfileIds : RefreshDirect(w, p)
    \/ /\ NoneRunning
       /\ \E w, v \in Workers : pass[v].pc = "interrupted" /\ RefreshDirect(w, pass[v].pid)
    \/ \E w \in Workers : Load(w)
    \/ \E w \in Workers : EnsureSelf(w, DetEmbedding(pass[w].me.pitch))
    \/ \E w \in Workers :
          \E others \in CandidateProfiles(pass[w].pid, pass[w].me.embedding) : Select(w, others)
    \/ \E w \in Workers :
          /\ pass[w].pc = "ensure_other"
          /\ EnsureOther(w, DetEmbedding(Other(w).pitch))
    \/ \E w \in Workers :
          /\ pass[w].pc = "score"
          /\ Score(w, DetCompletion(pass[w].me.pitch, Other(w).pitch),
                      DetCompletion(Other(w).pitch, pass[w].me.pitch))
    \/ \E w \in Workers : UpsertAB(w)
    \/ \E w \in Workers : UpsertBA(w)
    \/ \E w \in Workers : started = 1 /\ Interrupt(w)

SpecRerun == InitRerun /\ [][NextRerun]_vars

\* What _openai_score returns for the stored profiles a and b
DetResult(a, b) ==
    OpenAIScore(have_key, have_client, profiles[a].pitch, profiles[b].pitch,
                DetCompletion(profiles[a].pitch, profiles[b].pitch))

\* The table a whole pass for p over the candidates ids leaves, begun on an empty table
StoreOf(p, ids) ==
    SetToBag(UNION { {Row(p, ids[i], DetResult(p, ids[i])),
                      Row(ids[i], p, DetResult(ids[i], p))} : i \in 1..Len(ids) })

IdsOf(others) == [i \in 1..Len(others) |-> others[i].id]

\* C11: a pass cut short at any step leaves, for every candidate it had finished,
\* both rows with the results it computed; no ordered pair ever has two rows;
\* and once the pass has been run again to its end the table is the one a pass
\* that was never cut short leaves: both rows of each candidate the selector
\* gives (those the cut pass had selected, when it got that far), nothing else.
C11_InterruptedRerun ==
    /\ \A a, b \in ProfileIds : RowCount(a, b) <= 1
    /\ \A w \in Workers :
          pass[w].pc = "interrupted" =>
              \A i \in 1..Len(pass[w].log) :
                  LET e == pass[w].log[i]
                  IN  /\ RowsOf(pass[w].pid, e.id) = {Row(pass[w].pid, e.id, e.ab)}
                      /\ RowsOf(e.id, pass[w].pid) = {Row(e.id, pass[w].pid, e.ba)}
    /\ \A w, v \in Workers :
          (pass[w].pc = "interrupted" /\ pass[v].pc = "done" /\ pass[v].pid = pass[w].pid) =>
              /\ matches \in { StoreOf(pass[w].pid, ids) :
                                 ids \in CandidateProfiles(pass[w].pid,
                                                           profiles[pass[w].pid].embedding) }
              /\ pass[w].failed_at \in {"ensure_other", "score", "upsert_ab", "upsert_ba"}
                    => matches = StoreOf(pass[w].pid, IdsOf(pass[w].others))

\* A pass over two candidates was cut between the two writes of its second
\* candidate, and the pass run again has ended
C11_Witness ==
    \E w, v \in Workers :
        /\ pass[w].pc = "interrupted"
        /\ pass[w].failed_at = "upsert_ba"
        /\ Len(pass[w].others) = 2
        /\ Len(pass[w].log) = 1
        /\ pass[v].pc = "done"
        /\ pass[v].pid = pass[w].pid
        /\ Len(pass[v].log) = 2
        /\ BagCardinality(matches) = 4

\* ------------------------------------------------------------------------
\* One call of _fallback_score on its own
\* ------------------------------------------------------------------------
PitchWords == {"Alpha", "alpha", "beta", "gamma", "delta", WS}

PitchTexts == UNION { [1..n -> PitchWords] : n \in 0..MaxPitchLen }

FallbackCalls ==
    { [pc |-> "fallback_asked", pitch_a |-> a, pitch_b |-> b, response |-> CallRaises,
       result |-> NoResult] : a \in PitchTexts, b \in PitchTexts }

InitFallback ==
    /\ have_key \in BOOLEAN
    /\ have_client = TRUE
    /\ profiles = [p \in ProfileIds |-> IF p <= NumSeeded THEN SeededProfile(p) ELSE NoProfile]
    /\ next_id = NumSeeded + 1
    /\ matches = EmptyBag
    /\ pass = [w \in Workers |-> IdlePass]
    /\ started = 0
    /\ deletes = 0
    /\ threads = <<>>
    /\ messages = <<>>
    /\ reply = NoReply
    /\ meetups = <<>>
    /\ interests = {}
    /\ call \in FallbackCalls

\* _fallback_score(profile_a, profile_b) runs and returns
FallbackScoreCall ==
    /\ call.pc = "fallback_asked"
    /\ call' = [call EXCEPT !.pc = "fallback_returned",
                            !.result = FallbackScore(call.pitch_a, call.pitch_b)]
    /\ UNCHANGED <<meetvars, have_key, have_client, profiles, next_id, matches, pass, started,
                   deletes, msgvars>>

NextFallback == FallbackScoreCall

SpecFallback == InitFallback /\ [][NextFallback]_vars

\* The lowercased words of a text
WordSet(text) == { Lower(text[i]) : i \in { j \in 1..Len(text) : text[j] # WS } }

\* C12: _fallback_score depends on the two pitch texts only.  With the token
\* sets got by lowercasing and splitting on whitespace, it returns score 0 and
\* the insufficient-pitch-data reason when the first set is empty, and
\* otherwise min(95, floor(35 + 65 * overlap / |tokens_a|)), which lies in 35..95.
C12_FallbackFormula ==
    call.pc = "fallback_returned" =>
        LET tokens_a == WordSet(call.pitch_a)
            tokens_b == WordSet(call.pitch_b)
            overlap == Cardinality(tokens_a \cap tokens_b)
        IN  IF tokens_a = {}
            THEN /\ call.result.score = 0
                 /\ call.result.reason = InsufficientPitchData
            ELSE /\ call.result.score =
                        Min(95, 35 + ((65 * overlap) \div Cardinality(tokens_a)))
                 /\ call.result.score \in 35..95
                 /\ call.result.reason = TokenOverlapFallback

\* A capitalised word and a run of whitespace in the first pitch: one of its
\* two tokens is shared
C12_Witness ==
    /\ call.pc = "fallback_returned"
    /\ call.pitch_a = <<"Alpha", WS, "beta">>
    /\ call.pitch_b = <<"alpha", "gamma">>
    /\ call.result.score = 67

\* C13: for A = "alpha beta" and B = "beta gamma delta", _fallback_score(A, B)
\* is 67 and _fallback_score(B, A) is 56: the two differ, and at the threshold
\* of 60 the first clears it and the second does not.
C13_FallbackAsymmetric ==
    LET A == <<"alpha", "beta">>
        B == <<"beta", "gamma", "delta">>
    IN  /\ (call.pc = "fallback_returned" /\ call.pitch_a = A /\ call.pitch_b = B) =>
               /\ call.result.score = 67
               /\ call.result.score # FallbackScore(B, A).score
               /\ call.result.score >= MESSAGE_MATCH_THRESHOLD
        /\ (call.pc = "fallback_returned" /\ call.pitch_a = B /\ call.pitch_b = A) =>
               /\ call.result.score = 56
               /\ call.result.score # FallbackScore(A, B).score
               /\ call.result.score < MESSAGE_MATCH_THRESHOLD

\* The call with B first has returned
C13_Witness ==
    /\ call.pc = "fallback_returned"
    /\ call.pitch_a = <<"beta", "gamma", "delta">>
    /\ call.pitch_b = <<"alpha", "beta">>
    /\ call.result.score = 56

\* The text is one JSON object with a convertible score, with noise that holds
\* no brace before it, after it or both
NoiseAroundObject(text) ==
    LET start == Find(text, "lbrace")
        end == RFind(text, "rbrace")
    IN  /\ start # 0
        /\ end > start
        /\ start > 1 \/ end < Len(text)
        /\ \A i \in 1..Len(text) :
              (i < start \/ i > end) => text[i].t \in {"noise", "ws", "value"}
        /\ \E i \in 1..Len(text) : (i < start \/ i > end) /\ text[i].t # "ws"
        /\ ~NotAnObjectWithScore(SubSeq(text, start, end))

\* C14: with credential and client, a content made of one valid object with
\* noise before or after it is answered by what _parse_match_json gives for
\* the text from the first opening brace to the last closing brace: a result
\* of the oracle with its score clamped to 0..100, not that of _fallback_score.
C14_BraceRecovery ==
    (/\ call.pc = "returned"
     /\ have_key
     /\ have_client
     /\ call.response.kind = "returns"
     /\ NoiseAroundObject(Strip(call.response.content))) =>
        LET object == BraceExtract(Strip(call.response.content))
        IN  /\ call.result = ParseMatchJson(object).result
            /\ call.result.via = "oracle"
            /\ call.result.score =
                  Max(0, Min(100, IntOf(DictGet(JsonLoads(object).fields, "match_score", JInt(0)))))
            /\ call.result.score \in 0..100

\* Noise, then an object whose score is 150: the answer is the oracle's, 100
C14_Witness ==
    /\ call.pc = "returned"
    /\ have_key
    /\ have_client
    /\ call.response = CallReturns(<<NOISE, LB, ScoreField(JInt(150)), RB>>)
    /\ call.result.via = "oracle"
    /\ call.result.score = 100
    /\ call.result # FallbackScore(call.pitch_a, call.pitch_b)

\* ------------------------------------------------------------------------
\* One call of _candidate_profiles on its own, with the default limit, on
\* profile tables of up to NumAvailable + 1 profiles
\* ------------------------------------------------------------------------
ScaleIds == 1..(NumAvailable + 1)

\* Profiles 1..n are stored, created in this order; 1..e have an embedding,
\* each in a direction of its own
ScaleStore(n, e) ==
    [p \in ScaleIds |->
        IF p <= n
        THEN [live |-> TRUE, pitch |-> PitchA, created_at |-> p,
              embedding |-> IF p <= e THEN <<1, p - 1>> ELSE NULL]
        ELSE NoProfile]

ScaleSizes == {1, 2, DefaultLimit, DefaultLimit + 1, NumAvailable + 1}

SelectCalls(store) ==
    { [pc |-> "select_asked", pid |-> p, embedding |-> v, result |-> <<>>] :
        p \in { q \in ScaleIds : store[q].live },
        v \in {NULL} \cup { store[q].embedding :
                             q \in { r \in 1..MaxEmbeddedAsker :
                                       store[r].live /\ store[r].embedding # NULL } } }

InitSelect ==
    /\ have_key = TRUE
    /\ have_client = TRUE
    /\ \E n \in ScaleSizes : \E e \in {0, 1, DefaultLimit, DefaultLimit + 1, n} :
          e <= n /\ profiles = ScaleStore(n, e)
    /\ next_id = NumAvailable + 2
    /\ matches = EmptyBag
    /\ pass = [w \in Workers |-> IdlePass]
    /\ started = 0
    /\ deletes = 0
    /\ threads = <<>>
    /\ messages = <<>>
    /\ reply = NoReply
    /\ meetups = <<>>
    /\ interests = {}
    /\ call \in { c \in SelectCalls(profiles) :
                    c.embedding \in {NULL, profiles[c.pid].embedding} }

\* list(_candidate_profiles(profile)) is evaluated
SelectCall ==
    /\ call.pc = "select_asked"
    /\ \E others \in CandidatesWithin(call.pid, call.embedding, DefaultLimit) :
          call' = [call EXCEPT !.pc = "selected", !.result = others]
    /\ UNCHANGED <<meetvars, have_key, have_client, profiles, next_id, matches, pass, started,
                   deletes, msgvars>>

NextSelect == SelectCall

SpecSelect == InitSelect /\ [][NextSelect]_vars

\* The profiles the selector chooses from: every other stored profile when the
\* asking profile has no embedding, those with an embedding when it has one
Available(c) ==
    { p \in DOMAIN profiles :
        /\ profiles[p].live
        /\ p # c.pid
        /\ c.embedding # NULL => profiles[p].embedding # NULL }

\* C15: whatever the profile table holds and whichever profile asks, the
\* selector's result does not contain the asking profile and has at most
\* `limit` (20 by default) elements, each another stored profile, none twice.
C15_SelectorBounds ==
    call.pc = "selected" =>
        /\ Len(call.result) <= DefaultLimit
        /\ \A i \in 1..Len(call.result) :
              /\ call.result[i] # call.pid
              /\ call.result[i] \in Available(call)
        /\ \A i, j \in 1..Len(call.result) : i # j => call.result[i] # call.result[j]

\* The asking profile has an embedding and so do all the others: it would be
\* the closest to itself, and is not in the result
C15_Witness ==
    /\ call.pc = "selected"
    /\ call.pid = 2
    /\ call.embedding = <<1, 1>>
    /\ Cardinality(Available(call)) = NumAvailable
    /\ Len(call.result) = DefaultLimit
    /\ call.result[1] \in {1, 3}

\* C16: with 50 other profiles to choose from and the limit of 20, the
\* selector returns exactly 20 candidates; in general as many as there are to
\* choose from, up to the limit.
C16_SelectorLimit ==
    call.pc = "selected" =>
        /\ Cardinality(Available(call)) = NumAvailable => Len(call.result) = DefaultLimit
        /\ Len(call.result) = Min(DefaultLimit, Cardinality(Available(call)))

\* No embedding on the asking profile, 50 others: the 20 newest are returned
C16_Witness ==
    /\ call.pc = "selected"
    /\ call.embedding = NULL
    /\ call.pid = 1
    /\ Cardinality(Available(call)) = NumAvailable
    /\ Len(call.result) = DefaultLimit
    /\ call.result[1] = NumAvailable + 1
    /\ call.result[DefaultLimit] = NumAvailable + 2 - DefaultLimit

\* ------------------------------------------------------------------------
\* One call of _get_embedding on its own
\* ------------------------------------------------------------------------
EmbedCalls ==
    { [pc |-> "embed_asked", text |-> t, response |-> r, result |-> NULL, ncalls |-> 0] :
        t \in PitchTexts, r \in {EmbedRaises} \cup { EmbedReturns(VectorOf(u)) : u \in PitchTexts } }

InitEmbed ==
    /\ have_key \in BOOLEAN
    /\ have_client \in BOOLEAN
    /\ profiles = [p \in ProfileIds |-> IF p <= NumSeeded THEN SeededProfile(p) ELSE NoProfile]
    /\ next_id = NumSeeded + 1
    /\ matches = EmptyBag
    /\ pass = [w \in Workers |-> IdlePass]
    /\ started = 0
    /\ deletes = 0
    /\ threads = <<>>
    /\ messages = <<>>
    /\ reply = NoReply
    /\ meetups = <<>>
    /\ interests = {}
    /\ call \in { c \in EmbedCalls : c.response \in EmbedResponses(c.text) }

\* _get_embedding without its try/except: the exception of the client leaves
\* the function
GetEmbeddingCallUncaught ==
    /\ call.pc = "embed_asked"
    /\ call' = [call EXCEPT
                  !.pc = IF /\ EmbeddingCallMade(have_key, have_client, call.text)
                            /\ call.response.kind = "raises"
                         THEN "embed_raised" ELSE "embed_returned",
                  !.result = GetEmbedding(have_key, have_client, call.text, call.response),
                  !.ncalls = IF EmbeddingCallMade(have_key, have_client, call.text)
                             THEN @ + 1 ELSE @]
    /\ UNCHANGED <<meetvars, have_key, have_client, profiles, next_id, matches, pass, started,
                   deletes, msgvars>>

\* _get_embedding(text) runs and returns; ncalls counts the requests made to
\* the embeddings endpoint
GetEmbeddingCall ==
    /\ call.pc = "embed_asked"
    /\ call' = [call EXCEPT
                  !.pc = "embed_returned",
                  !.result = GetEmbedding(have_key, have_client, call.text, call.response),
                  !.ncalls = IF EmbeddingCallMade(have_key, have_client, call.text)
                             THEN @ + 1 ELSE @]
    /\ UNCHANGED <<meetvars, have_key, have_client, profiles, next_id, matches, pass, started,
                   deletes, msgvars>>

NextEmbed == GetEmbeddingCall

SpecEmbed == InitEmbed /\ [][NextEmbed]_vars

\* C17: _get_embedding of an empty text or of a text of whitespace only
\* returns None and makes no request to the embeddings endpoint.
C17_BlankTextNoCall ==
    (call.pc = "embed_returned" /\ \A i \in 1..Len(call.text) : call.text[i] = WS) =>
        /\ call.result = NULL
        /\ call.ncalls = 0

\* With credential and client and an endpoint that would answer, a text of
\* two runs of whitespace got None and no request was made
C17_Witness ==
    /\ call.pc = "embed_returned"
    /\ have_key
    /\ have_client
    /\ call.text = <<WS, WS>>
    /\ call.response.kind = "returns"
    /\ call.result = NULL
    /\ call.ncalls = 0

\* ------------------------------------------------------------------------
\* Two stored profiles, no oracle: refresh, then the reads
\* ------------------------------------------------------------------------
PitchP == <<"I", "am", "a", "founder", "seeking", "investors">>
PitchQ == <<"I", "invest", "in", "early", "founders">>

\* Q is profile 1 and P, created after it, profile 2; neither has rows yet.
\* The credential, the client or both are missing.
InitFounders ==
    /\ have_key \in BOOLEAN
    /\ have_client \in BOOLEAN
    /\ ~(have_key /\ have_client)
    /\ profiles = [p \in ProfileIds |->
                     IF p = 1 THEN [SeededProfile(1) EXCEPT !.pitch = PitchQ]
                     ELSE IF p = 2 THEN [SeededProfile(2) EXCEPT !.pitch = PitchP]
                     ELSE NoProfile]
    /\ next_id = 3
    /\ matches = EmptyBag
    /\ pass = [w \in Workers |-> IdlePass]
    /\ started = 0
    /\ deletes = 0
    /\ threads = <<>>
    /\ messages = <<>>
    /\ reply = NoReply
    /\ meetups = <<>>
    /\ interests = {}
    /\ call = NoCall

NextFounders ==
    \/ \E w \in Workers, p \in ProfileIds : RefreshDirect(w, p)
    \/ \E w \in Workers : \E r \in EmbedResponses(pass[w].me.pitch) : EnsureSelf(w, r)
    \/ \E w \in Workers :
          \E others \in CandidateProfiles(pass[w].pid, pass[w].me.embedding) : Select(w, others)
    \/ \E w \in Workers :
          /\ pass[w].pc = "ensure_other"
          /\ \E r \in EmbedResponses(Other(w).pitch) : EnsureOther(w, r)
    \/ \E w \in Workers :
          /\ pass[w].pc = "score"
          /\ \E rab \in OracleResponses(pass[w].me.pitch, Other(w).pitch),
                rba \in OracleResponses(Other(w).pitch, pass[w].me.pitch) : Score(w, rab, rba)
    \/ \E w \in Workers : UpsertAB(w)
    \/ \E w \in Workers : UpsertBA(w)
    \/ \E pr \in Pairs : StoredScoreQuery(pr[1], pr[2])
    \/ \E pr \in Pairs : CanMessageQuery(pr[1], pr[2])

SpecFounders == InitFounders /\ [][NextFounders]_vars

\* C18: without the oracle, once create_or_update_profile_matches(P) has
\* returned, the rows (P, Q) and (Q, P) exist, once each, with the scores of
\* the fallback formula, 45 and 48; and can_message_profiles(P, Q) is whether
\* the score of (P, Q) is at least 60: false.
C18_FoundersEndToEnd ==
    /\ \A w \in Workers :
          (pass[w].pc = "done" /\ pass[w].pid = 2) =>
              /\ RowCount(2, 1) = 1
              /\ RowCount(1, 2) = 1
              /\ StoredScores(2, 1) = {45}
              /\ StoredScores(1, 2) = {48}
              /\ \A r \in RowsOf(2, 1) \cup RowsOf(1, 2) : r.reasoning = TokenOverlapFallback
              /\ ~CanMessageProfiles(2, 1)
    /\ (reply.op = "can_message" /\ reply.a = 2 /\ reply.b = 1) =>
          /\ reply.allowed = (GetStoredMatchScore(2, 1) >= 60)
          /\ ~reply.allowed
    /\ (reply.op = "stored_score" /\ reply.a = 2 /\ reply.b = 1) => reply.value = 45

\* The pass for P is over, both rows are there and can_message(P, Q) was
\* answered false
C18_Witness ==
    /\ \E w \in Workers : pass[w].pc = "done" /\ pass[w].pid = 2 /\ Len(pass[w].log) = 1
    /\ StoredScores(2, 1) = {45}
    /\ StoredScores(1, 2) = {48}
    /\ reply.op = "can_message"
    /\ reply.a = 2
    /\ reply.b = 1
    /\ ~reply.allowed

\* ------------------------------------------------------------------------
\* scripts/backfill_demo_pitches.py, run once between the requests
\* ------------------------------------------------------------------------
\* list(Profile.objects.order_by("id"))
ProfilesById == CHOOSE seq \in OrderingsOf(LiveIds, LAMBDA x, y : x < y) : TRUE

ScriptIdle == call.pc \in {"none", "backfill_done"}

\* main() begins: the profiles are listed
BackfillStart ==
    /\ call.pc = "none"
    /\ AllIdle
    /\ LiveIds # {}
    /\ call' = [pc |-> "backfill_save", ids |-> ProfilesById, idx |-> 1, cleared |-> FALSE]
    /\ UNCHANGED <<meetvars, have_key, have_client, profiles, next_id, matches, pass, started,
                   deletes, msgvars>>

\* profile.tag = role; profile.pitch_text = pitch; profile.embedding = None;
\* profile.save(update_fields=["tag", "pitch_text", "embedding"])
BackfillSave(pitch) ==
    /\ call.pc = "backfill_save"
    /\ LET p == call.ids[call.idx]
       IN  /\ profiles' = [profiles EXCEPT ![p].pitch = pitch, ![p].embedding = NULL]
           /\ call' = [call EXCEPT !.pc = "backfill_ensure",
                                   !.cleared = @ \/ profiles[p].embedding # NULL]
    /\ UNCHANGED <<meetvars, have_key, have_client, next_id, matches, pass, started, deletes, msgvars>>

\* ensure_profile_embedding(profile) on the object just saved, then the loop
\* moves on; after the last profile the second loop begins
BackfillEnsure(response) ==
    /\ call.pc = "backfill_ensure"
    /\ LET p == call.ids[call.idx]
           embedding == GetEmbedding(have_key, have_client, profiles[p].pitch, response)
       IN  /\ profiles' = IF embedding = NULL THEN profiles
                          ELSE [profiles EXCEPT ![p].embedding = embedding]
           /\ call' = IF call.idx < Len(call.ids)
                      THEN [call EXCEPT !.pc = "backfill_save", !.idx = @ + 1]
                      ELSE [call EXCEPT !.pc = "backfill_match", !.idx = 1]
    /\ UNCHANGED <<meetvars, have_key, have_client, next_id, matches, pass, started, deletes, msgvars>>

\* for profile in profiles[:4]: create_or_update_profile_matches(profile); the
\* next call begins when the one before has returned
BackfillMatch(w) ==
    /\ call.pc = "backfill_match"
    /\ AllIdle
    /\ FreeSlot(w)
    /\ call.idx <= Min(BackfillMatched, Len(call.ids))
    /\ pass' = [pass EXCEPT ![w] =
                  [IdlePass EXCEPT !.mode = "direct", !.caller = "inline",
                                   !.pc = "ensure_self", !.pid = call.ids[call.idx],
                                   !.me = Snapshot(call.ids[call.idx])]]
    /\ call' = [call EXCEPT !.idx = @ + 1]
    /\ UNCHANGED <<meetvars, have_key, have_client, profiles, next_id, matches, started, deletes, msgvars>>

\* main() returns
BackfillDone ==
    /\ call.pc = "backfill_match"
    /\ AllIdle
    /\ call.idx > Min(BackfillMatched, Len(call.ids))
    /\ call' = [call EXCEPT !.pc = "backfill_done"]
    /\ UNCHANGED <<meetvars, have_key, have_client, profiles, next_id, matches, pass, started,
                   deletes, msgvars>>

NextBackfill ==
    \/ AllIdle /\ ScriptIdle /\ \E w \in Workers : PerformCreate(w)
    \/ \E w \in Workers, async \in BOOLEAN : ScheduleProfileMatch(w, async)
    \/ \E w \in Workers : Load(w)
    \/ \E w \in Workers : \E r \in EmbedResponses(pass[w].me.pitch) : EnsureSelf(w, r)
    \/ \E w \in Workers :
          \E others \in CandidateProfiles(pass[w].pid, pass[w].me.embedding) : Select(w, others)
    \/ \E w \in Workers :
          /\ pass[w].pc = "ensure_other"
          /\ \E r \in EmbedResponses(Other(w).pitch) : EnsureOther(w, r)
    \/ \E w \in Workers :
          /\ pass[w].pc = "score"
          /\ \E rab \in OracleResponses(pass[w].me.pitch, Other(w).pitch),
                rba \in OracleResponses(Other(w).pitch, pass[w].me.pitch) : Score(w, rab, rba)
    \/ \E w \in Workers : UpsertAB(w)
    \/ \E w \in Workers : UpsertBA(w)
    \/ \E w \in Workers : RequestEnds(w)
    \/ BackfillStart
    \/ \E pitch \in {PitchA, PitchB} : BackfillSave(pitch)
    \/ /\ call.pc = "backfill_ensure"
       /\ \E r \in EmbedResponses(profiles[call.ids[call.idx]].pitch) : BackfillEnsure(r)
    \/ \E w \in Workers : BackfillMatch(w)
    \/ BackfillDone

SpecBackfill == Init /\ [][NextBackfill]_vars

\* The step is a write of the engine: ensure_profile_embedding, or an
\* update_or_create of create_or_update_profile_matches
EngineWrite ==
    \/ \E w \in Workers :
          /\ pass[w].pc \in {"ensure_self", "ensure_other", "upsert_ab", "upsert_ba"}
          /\ pass'[w] # pass[w]
    \/ call.pc = "backfill_ensure" /\ call' # call

\* C19: every step that sets, clears or changes the embedding of a stored
\* profile, or creates, changes or deletes a ProfileMatch row, is a step of
\* ensure_profile_embedding or of create_or_update_profile_matches.
C19_EngineSoleWriter ==
    [][( \/ \E p \in ProfileIds : Live(p) /\ profiles'[p].embedding # profiles[p].embedding
         \/ matches' # matches ) => EngineWrite]_vars

\* The script has cleared an embedding the engine had stored
C19_Witness ==
    /\ call.pc = "backfill_ensure"
    /\ call.cleared
    /\ profiles[call.ids[call.idx]].embedding = NULL

\* ------------------------------------------------------------------------
\* The consumers of the table: the score and permission reads, the pitch
\* shown by the serializer and the messaging requests
\* ------------------------------------------------------------------------
NextRead ==
    \/ NextMsg
    \/ AllIdle /\ \E auth, param \in {0} \cup ProfileIds, obj \in ProfileIds :
          GetPitchText(auth, param, obj)

SpecRead == Init /\ [][NextRead]_vars

\* The step is one of get_stored_match_score, can_message_profiles,
\* get_pitch_text, start or send: these are the steps that answer
ConsumerStep == reply' # reply

\* C20: a step of get_stored_match_score or of can_message_profiles (asked
\* directly, by start and send, or by get_pitch_text) leaves the ProfileMatch
\* table and every profile as they were and makes no step of a matching pass,
\* which is where the completion and embedding calls are made; and the pitch
\* is shown to another profile only when the stored score of (viewer, obj),
\* or the fallback score when no row exists, reaches the threshold.
C20_ReadsAreReadOnly ==
    [][ConsumerStep =>
          /\ matches' = matches
          /\ profiles' = profiles
          /\ pass' = pass
          /\ started' = started
          /\ call' = call
          /\ (reply'.op = "pitch_text" /\ reply'.allowed /\ reply'.a # reply'.b) =>
                IF RowCount(reply'.a, reply'.b) > 0
                THEN \E v \in StoredScores(reply'.a, reply'.b) : v >= MESSAGE_MATCH_THRESHOLD
                ELSE FallbackScore(profiles[reply'.a].pitch, profiles[reply'.b].pitch).score
                        >= MESSAGE_MATCH_THRESHOLD]_vars

\* With key and client configured, a pitch was shown to another profile on the
\* fallback score alone, and the pair still has no row
C20_Witness ==
    /\ have_key
    /\ have_client
    /\ reply.op = "pitch_text"
    /\ reply.allowed
    /\ reply.a # reply.b
    /\ Live(reply.a)
    /\ Live(reply.b)
    /\ RowCount(reply.a, reply.b) = 0
    /\ \E pr \in Pairs : RowCount(pr[1], pr[2]) > 0

\* ------------------------------------------------------------------------
\* Concurrent passes writing the same pair
\* ------------------------------------------------------------------------
\* The pass of slot w makes one of its update_or_create calls in this step
UpsertStep(w) == pass[w].pc \in {"upsert_ab", "upsert_ba"} /\ pass'[w].pc # pass[w].pc

UpsertSource(w) == IF pass[w].pc = "upsert_ab" THEN pass[w].pid ELSE Other(w).id
UpsertTarget(w) == IF pass[w].pc = "upsert_ab" THEN Other(w).id ELSE pass[w].pid
UpsertResult(w) == IF pass[w].pc = "upsert_ab" THEN pass[w].result_ab ELSE pass[w].result_ba

\* Candidate c is among those of the pass of slot w
HasCandidate(w, c) == \E i \in 1..Len(pass[w].others) : pass[w].others[i].id = c

\* What the complete pass of slot w computed for the row (source, target)
ComputedFor(w, source, target) ==
    { IF source = pass[w].pid THEN pass[w].log[i].ab ELSE pass[w].log[i].ba :
        i \in { j \in 1..Len(pass[w].log) :
                  {source, target} = {pass[w].pid, pass[w].log[j].id} } }

\* Two passes for different profiles, each with the other among its candidates,
\* are both complete and no profile was deleted while they ran
RacedPasses(w, v) ==
    /\ w # v
    /\ Undisturbed(w)
    /\ Undisturbed(v)
    /\ pass[w].pid # pass[v].pid
    /\ HasCandidate(w, pass[v].pid)
    /\ HasCandidate(v, pass[w].pid)

\* C21: when passes for different profiles interleave, an update_or_create on
\* two stored profiles never fails, whatever the other pass has written; it
\* leaves exactly one row of its pair, holding the result it was given, and no
\* other row changes; a row changes only by an update_or_create on its pair or
\* by a deletion.  So once two passes that had each other as candidates are both
\* complete, (A,B) and (B,A) have one row each, holding what the last
\* update_or_create on the pair wrote, which is a result of one of the two.
C21_LastWriterWins ==
    /\ [][\A w \in Workers :
            (UpsertStep(w) /\ Live(UpsertSource(w)) /\ Live(UpsertTarget(w))) =>
                /\ pass'[w].pc \notin {"raised", "swallowed"}
                /\ \E r \in BagToSet(matches') :
                      /\ r = Row(UpsertSource(w), UpsertTarget(w), UpsertResult(w))
                      /\ CopiesIn(r, matches') = 1
                      /\ \A q \in BagToSet(matches') :
                            (q.source_profile = r.source_profile
                               /\ q.target_profile = r.target_profile) => q = r
                /\ \A q \in BagToSet(matches) \cup BagToSet(matches') :
                      <<q.source_profile, q.target_profile>>
                            # <<UpsertSource(w), UpsertTarget(w)>>
                         => CopiesIn(q, matches') = CopiesIn(q, matches)]_vars
    /\ [][matches' # matches =>
             \/ deletes' # deletes
             \/ \E w \in Workers : UpsertStep(w)]_vars
    /\ [](\A w, v \in Workers :
             RacedPasses(w, v) =>
                 /\ RowCount(pass[w].pid, pass[v].pid) = 1
                 /\ RowCount(pass[v].pid, pass[w].pid) = 1
                 /\ \A r \in RowsOf(pass[w].pid, pass[v].pid) :
                       \E x \in ComputedFor(w, pass[w].pid, pass[v].pid)
                                  \cup ComputedFor(v, pass[w].pid, pass[v].pid) :
                           r = Row(pass[w].pid, pass[v].pid, x))

\* Two concurrent passes that had each other as candidates are complete, they
\* computed different results for the row (A,B), and the row holds the result
\* of the pass for B although the pass for A wrote the pair too
C21_Witness ==
    \E w, v \in Workers :
        /\ RacedPasses(w, v)
        /\ pass[w].replaced \/ pass[v].replaced
        /\ ComputedFor(w, pass[w].pid, pass[v].pid) # ComputedFor(v, pass[w].pid, pass[v].pid)
        /\ \A r \in RowsOf(pass[w].pid, pass[v].pid) :
              \E x \in ComputedFor(v, pass[w].pid, pass[v].pid) :
                  r = Row(pass[w].pid, pass[v].pid, x)

\* C22: when the asking profile has an embedding, every profile the selector
\* returns has an embedding, they come in ascending cosine distance to the
\* asking profile's embedding and no profile left out is closer than one
\* returned, and a profile without an embedding is never returned, even when
\* fewer than `limit` others have one; when the asking profile has no
\* embedding, the result is in descending creation order and no profile left
\* out is newer than one returned.
C22_SelectorOrder ==
    call.pc = "selected" =>
        LET n == Len(call.result)
            emb(p) == profiles[p].embedding
            others == { p \in DOMAIN profiles : profiles[p].live /\ p # call.pid }
            chosen == { call.result[i] : i \in 1..n }
        IN  IF call.embedding # NULL
            THEN /\ \A i \in 1..n : emb(call.result[i]) # NULL
                 /\ \A i, j \in 1..n :
                       i < j => ~CloserThan(call.embedding, emb(call.result[j]),
                                            emb(call.result[i]))
                 /\ \A p \in others \ chosen :
                       emb(p) # NULL =>
                          \A i \in 1..n :
                             ~CloserThan(call.embedding, emb(p), emb(call.result[i]))
                 /\ n = Min(DefaultLimit,
                            Cardinality({ p \in others : emb(p) # NULL }))
            ELSE /\ \A i, j \in 1..n :
                       i < j => profiles[call.result[i]].created_at
                                   > profiles[call.result[j]].created_at
                 /\ \A p \in others \ chosen :
                       \A i \in 1..n :
                          profiles[p].created_at < profiles[call.result[i]].created_at

\* The asking profile has an embedding, 19 of the 50 others have one: the 19
\* are returned, nearest first, and none of the 31 without
C22_Witness ==
    /\ call.pc = "selected"
    /\ call.pid = 2
    /\ call.embedding = <<1, 1>>
    /\ Cardinality({ p \in DOMAIN profiles : profiles[p].live /\ p # call.pid }) = NumAvailable
    /\ Cardinality({ p \in DOMAIN profiles :
                       profiles[p].live /\ p # call.pid /\ profiles[p].embedding # NULL })
          = DefaultLimit - 1
    /\ Len(call.result) = DefaultLimit - 1
    /\ call.result[1] = 3
    /\ call.result[DefaultLimit - 1] = 1

\* ------------------------------------------------------------------------
\* ensure_profile_embedding within the passes
\* ------------------------------------------------------------------------
\* The pass of slot w makes one of its ensure_profile_embedding calls in this step
EnsureStep(w) == pass[w].pc \in {"ensure_self", "ensure_other"} /\ pass'[w].pc # pass[w].pc

\* The profile object the call is given, as the pass holds it
EnsureObject(w) == IF pass[w].pc = "ensure_self" THEN pass[w].me ELSE Other(w)

\* C23: a call of ensure_profile_embedding on a stored profile whose embedding
\* is set calls _get_embedding not at all and writes nothing, so that an
\* embedding once stored is never computed again nor changed by a pass; on a
\* stored profile without an embedding it calls _get_embedding exactly once,
\* and it writes a profile only to give it a non-null embedding.
C23_EmbeddingSetOnce ==
    [][\A w \in Workers :
          EnsureStep(w) =>
             LET id == EnsureObject(w).id
             IN  /\ (Live(id) /\ profiles[id].embedding # NULL) =>
                       /\ pass'[w].nembed = pass[w].nembed
                       /\ profiles' = profiles
                 /\ (Live(id) /\ profiles[id].embedding = NULL) =>
                       pass'[w].nembed = pass[w].nembed + 1
                 /\ profiles' # profiles =>
                       /\ profiles'[id].embedding # NULL
                       /\ \A p \in ProfileIds : p # id => profiles'[p] = profiles[p]]_vars

\* A pass is about to call ensure_profile_embedding on a candidate it read
\* before another pass stored the candidate's embedding
C23_Witness ==
    \E w \in Workers :
        /\ pass[w].pc = "ensure_other"
        /\ Other(w).embedding = NULL
        /\ Live(Other(w).id)
        /\ profiles[Other(w).id].embedding # NULL

\* C24: _get_embedding always returns to its caller, never raises; without
\* the credential, without the client, or when the request to the embeddings
\* endpoint raises, it returns None; and one invocation makes at most one
\* request to the endpoint.
C24_EmbedNeverRaises ==
    /\ call.pc \in {"embed_asked", "embed_returned"}
    /\ call.pc = "embed_returned" =>
          /\ call.ncalls <= 1
          /\ (~have_key \/ ~have_client) => (call.result = NULL /\ call.ncalls = 0)
          /\ (call.ncalls = 1 /\ call.response.kind = "raises") => call.result = NULL
          /\ (call.ncalls = 1 /\ call.response.kind = "returns") =>
                call.result = call.response.vector

\* With credential and client, the request for a non-blank text raised: one
\* request was made and None was returned
C24_Witness ==
    /\ call.pc = "embed_returned"
    /\ have_key
    /\ have_client
    /\ StripNonEmpty(call.text)
    /\ call.response.kind = "raises"
    /\ call.ncalls = 1
    /\ call.result = NULL

\* C25: a pass that ran to the end of its loop has called _openai_score
\* exactly twice per candidate, once per direction and in the order the
\* selector gave the candidates, so at most 2 * MATCH_CANDIDATE_LIMIT times,
\* and has called _get_embedding at most once for its own profile and once
\* per candidate.
C25_CallBudget ==
    \A w \in Workers :
        pass[w].pc = "done" =>
            LET n == Len(pass[w].others)
            IN  /\ n <= MATCH_CANDIDATE_LIMIT
                /\ pass[w].nscore = 2 * n
                /\ pass[w].nscore <= 2 * MATCH_CANDIDATE_LIMIT
                /\ pass[w].nembed <= 1 + n
                /\ Len(pass[w].log) = n
                /\ \A i \in 1..n :
                      /\ pass[w].log[i].id = pass[w].others[i].id
                      /\ pass[w].log[i].ab \in ScoresOf(pass[w].me.pitch, pass[w].others[i].pitch)
                      /\ pass[w].log[i].ba \in ScoresOf(pass[w].others[i].pitch, pass[w].me.pitch)

\* A complete pass over as many candidates as the limit allows, none of which
\* had an embedding: 2 * limit scoring calls and 1 + limit embedding calls
C25_Witness ==
    \E w \in Workers :
        /\ pass[w].pc = "done"
        /\ Len(pass[w].others) = MATCH_CANDIDATE_LIMIT
        /\ pass[w].nscore = 2 * MATCH_CANDIDATE_LIMIT
        /\ pass[w].nembed = 1 + MATCH_CANDIDATE_LIMIT

\* ------------------------------------------------------------------------
\* Passes that keep running: no profile is deleted, and a thread that can
\* take a step eventually takes it
\* ------------------------------------------------------------------------
PassStep(w) ==
    \/ \E async \in BOOLEAN : ScheduleProfileMatch(w, async)
    \/ Load(w)
    \/ \E r \in EmbedResponses(pass[w].me.pitch) : EnsureSelf(w, r)
    \/ /\ pass[w].pc = "select"
       /\ \E others \in CandidateProfiles(pass[w].pid, pass[w].me.embedding) :
             Select(w, others)
    \/ /\ pass[w].pc = "ensure_other"
       /\ \E r \in EmbedResponses(Other(w).pitch) : EnsureOther(w, r)
    \/ /\ pass[w].pc = "score"
       /\ \E rab \in OracleResponses(pass[w].me.pitch, Other(w).pitch),
             rba \in OracleResponses(Other(w).pitch, pass[w].me.pitch) : Score(w, rab, rba)
    \/ UpsertAB(w)
    \/ UpsertBA(w)

NextLive ==
    \/ \E w \in Workers : PerformCreate(w)
    \/ \E w \in Workers : PassStep(w)

SpecLive == Init /\ [][NextLive]_vars /\ \A w \in Workers : WF_vars(PassStep(w))

PassBegun(w) == pass[w].pc \notin {"idle", "done"}

\* A score and reason a row may hold
ValidResult(r) ==
    /\ r.match_score \in 0..100
    /\ r.reasoning # Str(0, 0, 0)

\* C26: whatever the embedding and completion calls do (no key, no client, an
\* exception, a content that is not the JSON asked for), a pass never raises
\* and is never abandoned; its loop runs at most MATCH_CANDIDATE_LIMIT times;
\* a pass that has begun reaches the end of its loop; and it has then written,
\* for each of its candidates, a row in each direction with a score in 0..100
\* and a non-empty reason.
C26_PassTerminates ==
    /\ [](\A w \in Workers :
             /\ pass[w].pc \notin {"raised", "swallowed"}
             /\ Len(pass[w].others) <= MATCH_CANDIDATE_LIMIT
             /\ pass[w].idx <= Len(pass[w].others) + 1
             /\ pass[w].pc = "done" =>
                   /\ pass[w].nwrites = 2 * Len(pass[w].others)
                   /\ \A i \in 1..Len(pass[w].others) :
                         /\ RowCount(pass[w].pid, pass[w].others[i].id) = 1
                         /\ RowCount(pass[w].others[i].id, pass[w].pid) = 1
                         /\ \A r \in RowsOf(pass[w].pid, pass[w].others[i].id)
                                       \cup RowsOf(pass[w].others[i].id, pass[w].pid) :
                               ValidResult(r))
    /\ \A w \in Workers : PassBegun(w) ~> (pass[w].pc = "done")

\* With key and client, a pass is complete in which every embedding call and
\* a completion call failed: it wrote both rows of each candidate, a fallback
\* result among them
C26_Witness ==
    \E w \in Workers :
        /\ have_key
        /\ have_client
        /\ pass[w].pc = "done"
        /\ Len(pass[w].others) = MATCH_CANDIDATE_LIMIT
        /\ pass[w].nembed = 1 + MATCH_CANDIDATE_LIMIT
        /\ pass[w].me.embedding = NULL
        /\ \E i \in 1..Len(pass[w].log) : pass[w].log[i].ab.via = "fallback"
        /\ pass[w].nwrites = 2 * MATCH_CANDIDATE_LIMIT

\* The pass of slot w takes a step
PassAdvance(w) ==
    /\ pass[w].pc \in {"load", "ensure_self", "select", "ensure_other", "score",
                       "upsert_ab", "upsert_ba"}
    /\ pass'[w].pc # pass[w].pc

\* C27: a step of the pass for profile p removes no row; the rows it adds or
\* changes are rows (p, c) or (c, p) of a candidate c of this pass; every other
\* row, among them the rows of pairs an earlier pass scored and this pass does
\* not have as candidates, keeps its score and reason; and of a profile the
\* step changes nothing but `embedding`.
C27_PassFrame ==
    [][\A w \in Workers :
          PassAdvance(w) =>
             /\ \A q \in BagToSet(matches) :
                   \E r \in BagToSet(matches') :
                      /\ r.source_profile = q.source_profile
                      /\ r.target_profile = q.target_profile
             /\ \A q \in BagToSet(matches) \cup BagToSet(matches') :
                   CopiesIn(q, matches') # CopiesIn(q, matches) =>
                      \E c \in ProfileIds :
                         /\ HasCandidate(w, c)
                         /\ <<q.source_profile, q.target_profile>>
                               \in {<<pass[w].pid, c>>, <<c, pass[w].pid>>}
             /\ \A p \in ProfileIds :
                   profiles'[p] = [profiles[p] EXCEPT !.embedding = profiles'[p].embedding]]_vars

\* A second pass for the same profile is complete without the candidate of the
\* first: the rows the first pass wrote for that pair are still there
C27_Witness ==
    \E w \in Workers :
        /\ pass[w].pc = "done"
        /\ pass[w].rerun
        /\ \E c \in LiveIds :
              /\ c # pass[w].pid
              /\ ~HasCandidate(w, c)
              /\ RowCount(pass[w].pid, c) = 1
              /\ RowCount(c, pass[w].pid) = 1

\* ------------------------------------------------------------------------
\* The direction start and send ask can_message_profiles for
\* ------------------------------------------------------------------------
\* Thread t was created by a start request of profile s: its first message is s's
StartedBy(t, s) ==
    \E m \in 1..Len(messages) :
        /\ messages[m].thread = t
        /\ messages[m].sender = s
        /\ \A k \in 1..(m - 1) : messages[k].thread # t

\* The other participant of a thread of two
Recipient(t, s) == CHOOSE r \in threads[t] \ {s} : TRUE

\* C28: when S started a thread of two participants with R and
\* can_message_profiles(S, R) holds now as it did then, a send by S on that
\* thread with a text is answered 201, in whichever order the participants of
\* the thread are listed.
C28_SendSameDirection ==
    [][\A t \in DOMAIN threads, sender \in ProfileIds :
          \A order \in OrderingsOf(threads[t], LAMBDA x, y : FALSE) :
              ( /\ SendMessage(t, sender, TRUE, order)
                /\ Live(sender)
                /\ sender \in threads[t]
                /\ Cardinality(threads[t]) = 2
                /\ StartedBy(t, sender)
                /\ CanMessageProfiles(sender, Recipient(t, sender)) )
              => reply'.status = 201]_vars

\* S started the thread with R and may message R, R may not message S: S's
\* send on the thread was refused
C28_Witness ==
    /\ reply.op = "send"
    /\ reply.status = 403
    /\ reply.b \in DOMAIN threads
    /\ Cardinality(threads[reply.b]) = 2
    /\ reply.a \in threads[reply.b]
    /\ StartedBy(reply.b, reply.a)
    /\ CanMessageProfiles(reply.a, Recipient(reply.b, reply.a))
    /\ ~CanMessageProfiles(Recipient(reply.b, reply.a), reply.a)

\* ------------------------------------------------------------------------
\* ProfileViewSet.perform_create near the limit, statement by statement
\* ------------------------------------------------------------------------
LimitIds == 1..(ProfileLimit + MaxPasses)

\* Profile.objects.count()
ProfileCount == Cardinality({ p \in DOMAIN profiles : profiles[p].live })

LimitStore(n) == [p \in LimitIds |-> IF p <= n THEN SeededProfile(p) ELSE NoProfile]

InitLimit ==
    /\ have_key \in BOOLEAN
    /\ have_client = FALSE
    /\ \E n \in (ProfileLimit - MaxPasses)..ProfileLimit :
          /\ profiles = LimitStore(n)
          /\ next_id = n + 1
    /\ matches = EmptyBag
    /\ pass = [w \in Workers |-> IdlePass]
    /\ started = 0
    /\ deletes = 0
    /\ threads = <<>>
    /\ messages = <<>>
    /\ reply = NoReply
    /\ meetups = <<>>
    /\ interests = {}
    /\ call = NoCall

\* if Profile.objects.count() >= 100: raise ValidationError
CreateCheck(w) ==
    /\ FreeSlot(w)
    /\ started < MaxPasses
    /\ started' = started + 1
    /\ pass' = [pass EXCEPT ![w] =
                  [IdlePass EXCEPT !.caller = IF ProfileCount >= ProfileLimit
                                              THEN "rejected" ELSE "checked"]]
    /\ UNCHANGED <<meetvars, have_key, have_client, profiles, next_id, matches, deletes, msgvars, call>>

\* profile = serializer.save()
CreateSave(w) ==
    /\ pass[w].caller = "checked"
    /\ next_id \in LimitIds
    /\ profiles' = [profiles EXCEPT ![next_id] =
                      [live |-> TRUE, pitch |-> PitchFor(next_id),
                       embedding |-> NULL, created_at |-> next_id]]
    /\ next_id' = next_id + 1
    /\ pass' = [pass EXCEPT ![w] =
                  [IdlePass EXCEPT !.caller = "created", !.pid = next_id,
                                   !.me = [id |-> next_id, pitch |-> PitchFor(next_id),
                                           embedding |-> NULL]]]
    /\ UNCHANGED <<meetvars, have_key, have_client, matches, started, deletes, msgvars, call>>

NextLimit ==
    \/ \E w \in Workers : CreateCheck(w)
    \/ \E w \in Workers : CreateSave(w)
    \/ \E w \in Workers : PassStep(w)

SpecLimit == InitLimit /\ [][NextLimit]_vars

\* C29: however create requests interleave, the Profile table never holds
\* more than 100 profiles; a create request that finds 100 profiles is
\* rejected, stores nothing, and no pass is scheduled for it.
C29_ProfileLimit ==
    /\ [](ProfileCount <= ProfileLimit)
    /\ [](\A w \in Workers : pass[w].caller = "rejected" => pass[w].pc = "idle")
    /\ [][\A w \in Workers :
            (pass[w].caller = "idle" /\ pass'[w].caller # "idle"
                /\ ProfileCount >= ProfileLimit)
            => (pass'[w].caller = "rejected" /\ profiles' = profiles)]_vars

\* Two create requests have both passed the count check with 99 profiles stored
C29_Witness ==
    /\ ProfileCount = ProfileLimit - 1
    /\ \E w, v \in Workers :
          /\ w # v
          /\ pass[w].caller = "checked"
          /\ pass[v].caller = "checked"

\* ------------------------------------------------------------------------
\* MeetupViewSet.up_for_it.  A meetup_time is a minute of the day, NoTime the
\* null meetup_time; a meetup_date is a day number.
\* ------------------------------------------------------------------------
NoTime == 0 - 1
MeetupIds == 1..NumMeetups
MeetupTimes == {NoTime, 10, 720, 740, MinutesPerDay - 10}
MeetupSlots == [meetup_date : 1..NumDates, meetup_time : MeetupTimes]

\* (datetime.combine(date, time) + timedelta(minutes=delta)).time()
TimeShifted(time, delta) == (time + delta + MinutesPerDay) % MinutesPerDay

\* _overlapping_meetups_queryset(meetup_date, meetup_time)
OverlappingMeetups(meetup_date, meetup_time) ==
    IF meetup_time = NoTime THEN {}
    ELSE LET window_start == TimeShifted(meetup_time, 0 - WindowMinutes)
             window_end == TimeShifted(meetup_time, WindowMinutes)
         IN  { m \in MeetupIds :
                 /\ meetups[m].meetup_date = meetup_date
                 /\ meetups[m].meetup_time # NoTime
                 /\ meetups[m].meetup_time >= window_start
                 /\ meetups[m].meetup_time <= window_end }

\* up_for_it on meetup m by the profile of the request (0 when it has none)
UpForIt(profile, m) ==
    /\ m \in MeetupIds
    /\ IF profile = 0
       THEN /\ reply' = Response("up_for_it", 403, profile, m)
            /\ UNCHANGED interests
       ELSE IF <<profile, m>> \in interests             \* get_or_create found the row
       THEN /\ interests' = interests \ {<<profile, m>>}
            /\ reply' = Response("up_for_it", 200, profile, m)
       ELSE LET overlapping_ids ==
                    OverlappingMeetups(meetups[m].meetup_date, meetups[m].meetup_time) \ {m}
                overlap_interest_count ==
                    Cardinality({ i \in interests :
                                    i[1] = profile /\ i[2] \in overlapping_ids })
            IN  IF meetups[m].meetup_time # NoTime /\ overlap_interest_count >= MaxOverlapping
                THEN /\ interests' = interests          \* the row is created, then deleted
                     /\ reply' = Response("up_for_it", 400, profile, m)
                ELSE /\ interests' = interests \cup {<<profile, m>>}
                     /\ reply' = [Response("up_for_it", 200, profile, m)
                                    EXCEPT !.allowed = TRUE]
    /\ UNCHANGED <<have_key, have_client, profiles, next_id, matches, pass, started,
                   deletes, threads, messages, call, meetups>>

InitMeetup ==
    /\ have_key \in BOOLEAN
    /\ have_client \in BOOLEAN
    /\ profiles = [p \in ProfileIds |-> IF p <= NumSeeded THEN SeededProfile(p) ELSE NoProfile]
    /\ next_id = NumSeeded + 1
    /\ matches = EmptyBag
    /\ pass = [w \in Workers |-> IdlePass]
    /\ started = 0
    /\ deletes = 0
    /\ threads = <<>>
    /\ messages = <<>>
    /\ reply = NoReply
    /\ call = NoCall
    /\ meetups \in [MeetupIds -> MeetupSlots]
    /\ interests = {}

NextMeetup == \E profile \in {0} \cup LiveIds, m \in MeetupIds : UpForIt(profile, m)

SpecMeetup == InitMeetup /\ [][NextMeetup]_vars

\* The other meetups on m's date starting within 30 minutes of m that the
\* profile is interested in
NearInterests(profile, m) ==
    { o \in MeetupIds \ {m} :
        /\ <<profile, o>> \in interests
        /\ meetups[o].meetup_date = meetups[m].meetup_date
        /\ meetups[o].meetup_time # NoTime
        /\ meetups[o].meetup_time - meetups[m].meetup_time \in (0 - WindowMinutes)..WindowMinutes }

\* C30: when a profile not yet interested in a meetup m that has a time calls
\* up_for_it, the interest is stored afterwards only if the profile is
\* interested in at most one other meetup of the same date starting within 30
\* minutes of m; with two or more, also when m is within 30 minutes of
\* midnight, the answer is 400 and the interests are what they were.
C30_OverlapLimit ==
    [][\A profile \in LiveIds, m \in MeetupIds :
          ( /\ UpForIt(profile, m)
            /\ <<profile, m>> \notin interests
            /\ meetups[m].meetup_time # NoTime )
          => /\ <<profile, m>> \in interests' =>
                   Cardinality(NearInterests(profile, m)) <= 1
             /\ Cardinality(NearInterests(profile, m)) >= MaxOverlapping =>
                   /\ reply'.status = 400
                   /\ interests' = interests]_vars

\* A profile is interested in three meetups of one date that all start ten
\* minutes before midnight, and the last request was answered "added"
C30_Witness ==
    /\ reply.op = "up_for_it"
    /\ reply.status = 200
    /\ reply.allowed
    /\ <<reply.a, reply.b>> \in interests
    /\ meetups[reply.b].meetup_time = MinutesPerDay - 10
    /\ Cardinality(NearInterests(reply.a, reply.b)) >= MaxOverlapping

====
